---- MODULE Spec2Model ----
(***************************************************************************)
(* Model of the LED network planner: hub coverage (ArtNetOptimizer),       *)
(* direction balancing (balance_edge_directions and                        *)
(* balance_row_power_and_ports) and power routing (power_optimizer).       *)
(* Nodes are coordinate triples <<x, y, z>>; node[2] is the row (Y).       *)
(***************************************************************************)
EXTENDS Integers, Sequences, FiniteSets, TLC

\* ------------------------------------------------------------------ bounds
MaxEdges == 3
MaxPortLimit == 2
MaxAmpLimit == 2
IterationBudget == 40
MaxTarget == 2
MaxCrowdedPorts == 3
MaxCrowdedAmps == 5

\* ------------------------------------------------------- program constants
DefaultMaxOutputs == 4
DefaultMaxAmps == 20
Phase2Wait == 30
Phase3Wait == 50
Infinity == 1000000
NoTarget == -1

\* Python's None, and the (None, None) direction of an edge with no hub.
None == <<>>
NoDirection == <<None, None>>

\* ----------------------------------------------------------------- helpers
Range(s) == {s[i] : i \in DOMAIN s}

SeqsUpTo(S, n) == UNION {[1..k -> S] : k \in 0..n}

MaxOf(S) == CHOOSE m \in S : \A x \in S : x <= m

MinOf(S) == CHOOSE m \in S : \A x \in S : m <= x

RECURSIVE SumSeq(_)
SumSeq(s) == IF s = <<>> THEN 0 ELSE Head(s) + SumSeq(Tail(s))

\* Distinct elements of a sequence in order of first occurrence: the key
\* order of a Python dict filled while iterating the sequence.
RECURSIVE DistinctSeq(_)
DistinctSeq(s) ==
    IF s = <<>> THEN <<>>
    ELSE LET front == DistinctSeq(SubSeq(s, 1, Len(s) - 1))
             last == s[Len(s)]
         IN IF last \in Range(front) THEN front ELSE Append(front, last)

\* Stable sort of <<key, item>> pairs, highest key first, as Python's
\* list.sort(key=..., reverse=True) (equal keys keep their order).
RECURSIVE InsertDesc(_, _)
InsertDesc(sorted, x) ==
    IF sorted = <<>> THEN <<x>>
    ELSE IF Head(sorted)[1] >= x[1]
         THEN <<Head(sorted)>> \o InsertDesc(Tail(sorted), x)
         ELSE <<x>> \o sorted

RECURSIVE StableSortDesc(_)
StableSortDesc(s) ==
    IF s = <<>> THEN <<>>
    ELSE InsertDesc(StableSortDesc(SubSeq(s, 1, Len(s) - 1)), s[Len(s)])

\* ------------------------------------------------------------------ inputs
NodeUniverse == {<<0, 0, 0>>, <<1, 0, 0>>, <<0, 1, 0>>}

EdgeUniverse == {<<a, b>> : a \in NodeUniverse, b \in NodeUniverse} \
                {<<a, a>> : a \in NodeUniverse}

Endpoints(es) == UNION {{es[i][1], es[i][2]} : i \in DOMAIN es}

VARIABLES
    pc,                     \* position in optimize_led_network
    error,                  \* the exception that ended the run and the
                            \* function that raised it
    nodes,                  \* ArtNetOptimizer.nodes
    edges,                  \* ArtNetOptimizer.edges
    num_artnet_nodes,       \* target count, NoTarget for None
    max_outputs_per_node,   \* port limit handed to both balancers
    max_amps_per_row,       \* current limit per row
    max_iterations,         \* iteration budget of the dual-constraint loop
    uncovered_edges,        \* _find_minimal_artnet_coverage local
    artnet_nodes,           \* the hub list
    edge_directions,        \* result of balance_edge_directions
    artnet_outputs,         \* artnet_output_counts of balance_edge_directions
    violations,             \* remaining_violations of balance_edge_directions
    edge_dirs,              \* working copy in balance_row_power_and_ports
    phase,
    iteration,
    improvements,
    best_max_row,
    iterations_without_max_improvement,
    edges_in_row,           \* local of the main loop; None while unbound
    row_y,                  \* local of the main loop; None while unbound
    result,                 \* dict returned by balance_row_power_and_ports
    intercom_edges,         \* NetworkVisualizer.intercom_edges (Type=Intercom)
    shown_artnet_nodes,     \* artnet_optimization['artnet_nodes'] as a set
    coverage_stats          \* coverage_stats of optimize_artnet_distribution

\* State of power_optimizer.optimize_power_distribution.  It shares pc,
\* error, nodes, edges, artnet_nodes and edge_directions with the planner,
\* whose output it takes.
VARIABLES
    optimize_hubs,              \* argument of optimize_power_distribution
    use_simulated_annealing,    \* strategy flag; cleared on fallback
    use_ant_colony,             \* strategy flag; cleared on fallback
    use_genetic,                \* strategy flag; cleared on fallback
    use_ortools,                \* strategy flag; cleared on fallback
    ORTOOLS_AVAILABLE,          \* the import of the solver succeeded
    use_2opt_improvement,       \* argument of optimize_power_distribution
    set_order,                  \* order in which this build iterates a set
                                \* of the routed hubs
    power_requirements,         \* watts per hub
    power_hubs,                 \* supply points
    all_circuits,               \* circuits of the strategy that ran
    improved_circuits,          \* result of solve_with_2opt_improvement
    optimization,               \* dict returned by
                                \* optimize_power_distribution
    iterations,                 \* iterations handed to the annealing and to
                                \* the colony
    annealing,                  \* locals of solve_with_simulated_annealing
    colony,                     \* locals of solve_with_ant_colony
    genetic,                    \* locals of solve_with_genetic_algorithm
    arguments,                  \* the strategy flags of the call
    previous                    \* what the previous call with the same
                                \* arguments returned

vars == <<pc, error, nodes, edges, num_artnet_nodes, max_outputs_per_node,
          max_amps_per_row, max_iterations, uncovered_edges, artnet_nodes,
          edge_directions, artnet_outputs, violations, edge_dirs, phase,
          iteration, improvements, best_max_row,
          iterations_without_max_improvement, edges_in_row, row_y, result,
          intercom_edges, shown_artnet_nodes, coverage_stats, optimize_hubs,
          use_simulated_annealing, use_ant_colony, use_genetic,
          use_ortools, ORTOOLS_AVAILABLE,
          use_2opt_improvement, set_order, power_requirements, power_hubs,
          all_circuits, improved_circuits, optimization, iterations,
          annealing, colony, genetic, arguments, previous>>

inputVars == <<nodes, edges, num_artnet_nodes, max_outputs_per_node,
               max_amps_per_row, max_iterations, intercom_edges>>

coverVars == <<uncovered_edges, artnet_nodes, coverage_stats>>

callVars == <<optimize_hubs, use_2opt_improvement, set_order, iterations,
              arguments, previous, ORTOOLS_AVAILABLE>>

flagVars == <<use_simulated_annealing, use_ant_colony, use_genetic,
              use_ortools>>

frameVars == <<annealing, colony, genetic>>

optionVars == <<callVars, flagVars>>

routerVars == <<optionVars, frameVars, power_requirements, power_hubs,
                all_circuits, improved_circuits, optimization>>

directionVars == <<edge_directions, artnet_outputs, violations>>

loopVars == <<edge_dirs, phase, iteration, improvements, best_max_row,
              iterations_without_max_improvement, edges_in_row, row_y>>

\* ------------------------------------------- NetworkVisualizer.load_data
RECURSIVE SetToSeq(_)
SetToSeq(S) ==
    IF S = {} THEN <<>>
    ELSE LET x == CHOOSE y \in S : TRUE IN <<x>> \o SetToSeq(S \ {x})

\* Pure intercom nodes: endpoints of intercom edges that are on no normal
\* edge (edges are compared by value, so a repeated edge has one type).
PureIntercomNodes(es, tagged) ==
    LET all_intercom_nodes == UNION {{e[1], e[2]} : e \in tagged}
        normal_edges == SelectSeq(es, LAMBDA e : e \notin tagged)
        mixed_nodes == Endpoints(normal_edges) \cap all_intercom_nodes
    IN all_intercom_nodes \ mixed_nodes

\* ------------------------------------------------ ArtNetOptimizer (cover)
\* Variant of Coverage that counts the edges starting at the node only.
CoverageOfStart(node, uncovered) ==
    Cardinality({e \in uncovered : e[1] = node})

\* Number of still-uncovered edges a node touches.
Coverage(node, uncovered) ==
    Cardinality({e \in uncovered : e[1] = node \/ e[2] = node})

Candidates(ns, hubs) == {n \in ns : n \notin Range(hubs)}

MaxCoverage(ns, hubs, uncovered) ==
    IF Candidates(ns, hubs) = {} THEN 0
    ELSE MaxOf({Coverage(n, uncovered) : n \in Candidates(ns, hubs)})

\* Variant of BestNodes in which max_coverage starts at 1 instead of 0.
BestNodesFromOne(ns, hubs, uncovered) ==
    {n \in Candidates(ns, hubs) :
        /\ Coverage(n, uncovered) > 1
        /\ Coverage(n, uncovered) = MaxCoverage(ns, hubs, uncovered)}

\* The nodes the scan `for node in self.nodes` can end with as best_node:
\* the first node of the set's iteration order that reaches the maximum.
BestNodes(ns, hubs, uncovered) ==
    {n \in Candidates(ns, hubs) :
        /\ Coverage(n, uncovered) > 0
        /\ Coverage(n, uncovered) = MaxCoverage(ns, hubs, uncovered)}

\* Coverage of a hub over all edges, one per list entry.
ListCoverage(node, es) ==
    Cardinality({i \in DOMAIN es : es[i][1] = node \/ es[i][2] = node})

\* Variant of _optimize_within_constraint that keeps the first hubs of the
\* list without ranking them.
KeepFirstHubs(hubs, max_nodes, es) ==
    IF Len(hubs) <= max_nodes THEN hubs ELSE SubSeq(hubs, 1, max_nodes)

_optimize_within_constraint(hubs, max_nodes, es) ==
    IF Len(hubs) <= max_nodes THEN hubs
    ELSE LET ranked == StableSortDesc(
                 [i \in DOMAIN hubs |-> <<ListCoverage(hubs[i], es), hubs[i]>>])
         IN [i \in 1..max_nodes |-> ranked[i][2]]

\* ------------------------------------------------ balance_edge_directions
\* node_to_artnet_neighbors[n]: the hubs joined to n by an edge, in edge
\* order.  balance_edge_directions appends one entry per edge (dedupe =
\* FALSE); balance_row_power_and_ports skips hubs already listed.
RECURSIVE ArtnetNeighbors(_, _, _, _)
ArtnetNeighbors(es, hubset, n, dedupe) ==
    IF es = <<>> THEN <<>>
    ELSE LET front == ArtnetNeighbors(SubSeq(es, 1, Len(es) - 1), hubset, n, dedupe)
             e == es[Len(es)]
             withStart == IF /\ e[1] \in hubset
                             /\ e[2] = n
                             /\ (~dedupe \/ e[1] \notin Range(front))
                          THEN Append(front, e[1]) ELSE front
         IN IF /\ e[2] \in hubset
               /\ e[1] = n
               /\ (~dedupe \/ e[2] \notin Range(withStart))
            THEN Append(withStart, e[2]) ELSE withStart

\* Variant of InitialDirection that takes the second endpoint on a tie.
InitialDirectionTieToEnd(edge, hubset, outs) ==
    LET start == edge[1]
        end == edge[2]
    IN IF start \notin hubset /\ end \notin hubset THEN NoDirection
       ELSE IF start \in hubset /\ end \in hubset
            THEN IF outs[start] < outs[end] THEN <<start, end>>
                 ELSE <<end, start>>
            ELSE IF start \in hubset THEN <<start, end>> ELSE <<end, start>>

\* Direction an edge gets in the first pass, given the output counts so far.
InitialDirection(edge, hubset, outs) ==
    LET start == edge[1]
        end == edge[2]
    IN IF start \notin hubset /\ end \notin hubset THEN NoDirection
       ELSE IF start \in hubset /\ end \in hubset
            THEN IF outs[start] <= outs[end] THEN <<start, end>>
                 ELSE <<end, start>>
            ELSE IF start \in hubset THEN <<start, end>> ELSE <<end, start>>

\* First pass over edges[i..]: one direction per dict key, one count per
\* list entry.
RECURSIVE FirstPassFrom(_, _, _, _, _)
FirstPassFrom(es, hubset, i, dirs, outs) ==
    IF i > Len(es) THEN [dirs |-> dirs, outs |-> outs]
    ELSE LET d == InitialDirection(es[i], hubset, outs)
         IN FirstPassFrom(es, hubset, i + 1,
                [dirs EXCEPT ![es[i]] = d],
                IF d = NoDirection THEN outs
                ELSE [outs EXCEPT ![d[1]] = @ + 1])

FirstPass(es, hubs) ==
    FirstPassFrom(es, Range(hubs), 1,
                  [e \in Range(es) |-> NoDirection],
                  [h \in Range(hubs) |-> 0])

\* The reversible_edges entries one dict item contributes for an
\* overloaded hub.
ReversibleOf(edge, overloaded, dirs, outs, es, hubset, maxOut) ==
    LET data_start == dirs[edge][1]
        data_end == dirs[edge][2]
    IN IF data_start # overloaded THEN <<>>
       ELSE IF data_end \in hubset
            THEN << [edge |-> edge, action |-> "direct", other |-> data_end,
                     capacity |-> maxOut - outs[data_end]] >>
            ELSE LET alts == ArtnetNeighbors(es, hubset, data_end, FALSE)
                     usable == SelectSeq(alts,
                         LAMBDA a : a # overloaded /\ maxOut - outs[a] > 0)
                 IN [k \in DOMAIN usable |->
                        [edge |-> edge, action |-> "redirect",
                         other |-> usable[k],
                         capacity |-> maxOut - outs[usable[k]]]]

RECURSIVE ReversibleEdges(_, _, _, _, _, _, _)
ReversibleEdges(keys, overloaded, dirs, outs, es, hubset, maxOut) ==
    IF keys = <<>> THEN <<>>
    ELSE ReversibleOf(Head(keys), overloaded, dirs, outs, es, hubset, maxOut)
         \o ReversibleEdges(Tail(keys), overloaded, dirs, outs, es, hubset, maxOut)

SortByCapacity(entries) ==
    LET sorted == StableSortDesc(
            [k \in DOMAIN entries |-> <<entries[k].capacity, entries[k]>>])
    IN [k \in DOMAIN sorted |-> sorted[k][2]]

\* The loop over reversible_edges for one overloaded hub.
RECURSIVE ApplyReversible(_, _, _, _, _, _)
ApplyReversible(entries, i, overloaded, dirs, outs, maxOut) ==
    IF i > Len(entries) \/ outs[overloaded] <= maxOut
    THEN [dirs |-> dirs, outs |-> outs]
    ELSE LET x == entries[i]
             old == dirs[x.edge]
         IN IF x.capacity > 0
            THEN ApplyReversible(entries, i + 1, overloaded,
                    [dirs EXCEPT ![x.edge] =
                        IF x.action = "direct" THEN <<old[2], old[1]>>
                        ELSE <<x.other, old[2]>>],
                    [outs EXCEPT ![overloaded] = @ - 1, ![x.other] = @ + 1],
                    maxOut)
            ELSE ApplyReversible(entries, i + 1, overloaded, dirs, outs, maxOut)

Overloaded(hubs, outs, maxOut) == SelectSeq(hubs, LAMBDA h : outs[h] > maxOut)

\* Second pass: relieve each hub of the violations list in turn.
RECURSIVE SecondPassFrom(_, _, _, _, _, _, _)
SecondPassFrom(viol, i, dirs, outs, es, hubset, maxOut) ==
    IF i > Len(viol) THEN [dirs |-> dirs, outs |-> outs]
    ELSE LET entries == SortByCapacity(
                 ReversibleEdges(DistinctSeq(es), viol[i], dirs, outs, es,
                                 hubset, maxOut))
             after == ApplyReversible(entries, 1, viol[i], dirs, outs, maxOut)
         IN SecondPassFrom(viol, i + 1, after.dirs, after.outs, es, hubset, maxOut)

SecondPass(es, hubs, dirs, outs, maxOut) ==
    SecondPassFrom(Overloaded(hubs, outs, maxOut), 1, dirs, outs, es,
                   Range(hubs), maxOut)

\* -------------------------------------------- balance_row_power_and_ports
\* The list entries of edges that carry a direction (`if data_start:`).
SourcedEdges(es, dirs) == SelectSeq(es, LAMBDA e : dirs[e][1] # None)

\* row_amps as the sequence of its items <<row_y, amps>> in dict order:
\* one amp per list entry, keyed by the Y coordinate of the source.
calculate_row_power(es, dirs) ==
    LET sourced == SourcedEdges(es, dirs)
        rows == DistinctSeq([k \in DOMAIN sourced |-> dirs[sourced[k]][1][2]])
    IN [r \in DOMAIN rows |->
           <<rows[r],
             Cardinality({k \in DOMAIN sourced : dirs[sourced[k]][1][2] = rows[r]})>>]

\* Variant of calculate_node_outputs that counts for a hub only the edges it
\* is an endpoint of, which leaves out the edges redirected to it.
NodeOutputsAtEndpoints(es, hubs, dirs) ==
    [h \in Range(hubs) |->
        Cardinality({i \in DOMAIN es :
                        dirs[es[i]][1] = h /\ h \in {es[i][1], es[i][2]}})]

calculate_node_outputs(es, hubs, dirs) ==
    [h \in Range(hubs) |-> Cardinality({i \in DOMAIN es : dirs[es[i]][1] = h})]

RowKeySet(row_amps) == {row_amps[r][1] : r \in DOMAIN row_amps}

\* row_amps.get(y, 0)
RowGet(row_amps, y) ==
    IF y \in RowKeySet(row_amps)
    THEN LET r == CHOOSE k \in DOMAIN row_amps : row_amps[k][1] = y
         IN row_amps[r][2]
    ELSE 0

MaxRow(row_amps) == MaxOf({row_amps[r][2] : r \in DOMAIN row_amps})

RowViolationsOver(row_amps, maxAmps) ==
    SelectSeq(row_amps, LAMBDA item : item[2] > maxAmps)

\* Variant of NodeViolationsOver that also lists hubs exactly at the limit.
NodeViolationsAtOrOver(hubs, node_outputs, maxOut) ==
    LET over == SelectSeq(hubs, LAMBDA h : node_outputs[h] >= maxOut)
    IN [k \in DOMAIN over |-> <<over[k], node_outputs[over[k]]>>]

NodeViolationsOver(hubs, node_outputs, maxOut) ==
    LET over == SelectSeq(hubs, LAMBDA h : node_outputs[h] > maxOut)
    IN [k \in DOMAIN over |-> <<over[k], node_outputs[over[k]]>>]

get_violations(es, hubs, dirs, maxAmps, maxOut) ==
    LET row_amps == calculate_row_power(es, dirs)
        node_outputs == calculate_node_outputs(es, hubs, dirs)
    IN [row_violations |-> RowViolationsOver(row_amps, maxAmps),
        node_violations |-> NodeViolationsOver(hubs, node_outputs, maxOut),
        row_amps |-> row_amps,
        node_outputs |-> node_outputs]

\* List entries whose source lies in row y / is the hub h.
EdgesSourcedInRow(es, dirs, y) ==
    SelectSeq(es, LAMBDA e : dirs[e][1] # None /\ dirs[e][1][2] = y)

EdgesSourcedAt(es, dirs, h) == SelectSeq(es, LAMBDA e : dirs[e][1] = h)

RECURSIVE SortedAsc(_)
SortedAsc(S) ==
    IF S = {} THEN <<>>
    ELSE <<MinOf(S)>> \o SortedAsc(S \ {MinOf(S)})

\* Index of the first element satisfying a test, 0 if none.
FirstIndex(s, Test(_)) ==
    IF \E k \in DOMAIN s : Test(s[k])
    THEN MinOf({k \in DOMAIN s : Test(s[k])})
    ELSE 0

NoMove == [kind |-> "none"]

Raise(name) == [kind |-> "error", error |-> name]

MoveTo(edge, dir) == [kind |-> "move", edge |-> edge, dir |-> dir]

\* Alternate hubs of an edge's sink that pass the capacity test
\* `alt_row_amps < max_amps_per_row and alt_node_outputs < max_outputs_per_node`.
SpareAlternates(edge, es, hubs, dirs, row_amps, node_outputs, maxAmps, maxOut) ==
    SelectSeq(ArtnetNeighbors(es, Range(hubs), dirs[edge][2], TRUE),
              LAMBDA alt : /\ alt # dirs[edge][1]
                           /\ RowGet(row_amps, alt[2]) < maxAmps
                           /\ node_outputs[alt] < maxOut)

\* Phase 1 redirect: the first listed edge that has a spare alternate hub
\* is re-pointed to the first such hub.
FirstRedirect(list, es, hubs, dirs, row_amps, node_outputs, maxAmps, maxOut) ==
    LET Alts(e) == SpareAlternates(e, es, hubs, dirs, row_amps, node_outputs,
                                   maxAmps, maxOut)
        k == FirstIndex(list, LAMBDA e : Alts(e) # <<>>)
    IN IF k = 0 THEN NoMove
       ELSE MoveTo(list[k], <<Alts(list[k])[1], dirs[list[k]][2]>>)

\* The locals row_y and edges_in_row after the loop over row_violations:
\* those of the last violating row, or whatever they were before.
Phase1Locals(row_violations, es, dirs, oldRow, oldList) ==
    IF row_violations = <<>> THEN [row_y |-> oldRow, edges_in_row |-> oldList]
    ELSE LET y == row_violations[Len(row_violations)][1]
         IN [row_y |-> [bound |-> TRUE, value |-> y],
             edges_in_row |-> [bound |-> TRUE,
                               value |-> EdgesSourcedInRow(es, dirs, y)]]

Phase1RowRepair(locals, es, hubs, dirs, row_amps, node_outputs, maxAmps, maxOut) ==
    IF ~locals.edges_in_row.bound THEN Raise("UnboundLocalError")
    ELSE LET mv == FirstRedirect(locals.edges_in_row.value, es, hubs, dirs,
                                 row_amps, node_outputs, maxAmps, maxOut)
         IN IF mv.kind = "move" /\ locals.row_y.value \notin RowKeySet(row_amps)
            THEN Raise("KeyError")
            ELSE mv

RECURSIVE ViolatingNodeEdges(_, _, _)
ViolatingNodeEdges(node_violations, es, dirs) ==
    IF node_violations = <<>> THEN <<>>
    ELSE EdgesSourcedAt(es, dirs, Head(node_violations)[1])
         \o ViolatingNodeEdges(Tail(node_violations), es, dirs)

Phase1NodeRepair(node_violations, es, hubs, dirs, row_amps, node_outputs, maxAmps, maxOut) ==
    FirstRedirect(ViolatingNodeEdges(node_violations, es, dirs), es, hubs,
                  dirs, row_amps, node_outputs, maxAmps, maxOut)

Phase1Move(v, locals, es, hubs, dirs, maxAmps, maxOut) ==
    LET rowMove == Phase1RowRepair(locals, es, hubs, dirs, v.row_amps,
                                   v.node_outputs, maxAmps, maxOut)
    IN IF rowMove.kind # "none" THEN rowMove
       ELSE Phase1NodeRepair(v.node_violations, es, hubs, dirs, v.row_amps,
                             v.node_outputs, maxAmps, maxOut)

\* sorted(row_amps.items(), key=load, reverse=True)
SortedByLoad(row_amps) ==
    LET sorted == StableSortDesc([r \in DOMAIN row_amps |->
                                     <<row_amps[r][2], row_amps[r]>>])
    IN [r \in DOMAIN sorted |-> sorted[r][2]]

\* The rows next to y in the ordering of the row coordinates.
NeighborRows(row_amps, y) ==
    LET sorted_rows == SortedAsc(RowKeySet(row_amps))
        row_idx == CHOOSE k \in DOMAIN sorted_rows : sorted_rows[k] = y
    IN {sorted_rows[k] : k \in {row_idx - 1, row_idx + 1} \cap DOMAIN sorted_rows}

\* alt_options of one edge of the high row, best priority first.
Phase2Options(edge, high_row_y, es, hubs, dirs, row_amps, node_outputs, maxAmps, maxOut) ==
    LET spare == SpareAlternates(edge, es, hubs, dirs, row_amps, node_outputs,
                                 maxAmps, maxOut)
        Priority(alt) ==
            (IF alt[2] \in NeighborRows(row_amps, high_row_y) THEN 100 ELSE 0)
            - RowGet(row_amps, alt[2])
        sorted == StableSortDesc([k \in DOMAIN spare |->
                                     <<Priority(spare[k]), spare[k]>>])
    IN [k \in DOMAIN sorted |-> sorted[k][2]]

\* The alternate hub Phase 2 moves the edge to: the first option whose row
\* carries less than the high row; None if there is none.
Phase2Choice(edge, high, es, hubs, dirs, row_amps, node_outputs, maxAmps, maxOut) ==
    LET options == Phase2Options(edge, high[1], es, hubs, dirs, row_amps,
                                 node_outputs, maxAmps, maxOut)
        k == FirstIndex(options, LAMBDA alt : RowGet(row_amps, alt[2]) < high[2])
    IN IF k = 0 THEN None ELSE options[k]

\* The list entries sourced in each of the given rows, flattened to
\* <<edge, row item>> in row order.
RECURSIVE RowEdgePairs(_, _, _)
RowEdgePairs(rows, es, dirs) ==
    IF rows = <<>> THEN <<>>
    ELSE LET high == Head(rows)
             inRow == EdgesSourcedInRow(es, dirs, high[1])
         IN [k \in DOMAIN inRow |-> <<inRow[k], high>>]
            \o RowEdgePairs(Tail(rows), es, dirs)

\* Phase 2 tries to unload the rows above average or at the maximum.
Phase2Move(v, es, hubs, dirs, maxAmps, maxOut) ==
    IF v.row_amps = <<>> THEN NoMove
    ELSE LET row_amps == v.row_amps
             total == SumSeq([r \in DOMAIN row_amps |-> row_amps[r][2]])
             Eligible(high) ==
                 ~(high[2] * Len(row_amps) <= total /\ high[2] < MaxRow(row_amps))
             pairs == RowEdgePairs(SelectSeq(SortedByLoad(row_amps), Eligible),
                                   es, dirs)
             Choice(pair) == Phase2Choice(pair[1], pair[2], es, hubs, dirs,
                                          row_amps, v.node_outputs, maxAmps, maxOut)
             k == FirstIndex(pairs, LAMBDA pair : Choice(pair) # None)
         IN IF k = 0 THEN NoMove
            ELSE IF Choice(pairs[k])[2] \notin RowKeySet(row_amps)
                 THEN Raise("KeyError")
                 ELSE MoveTo(pairs[k][1], <<Choice(pairs[k]), dirs[pairs[k][1]][2]>>)

\* Phase 3 reverses a hub-to-hub edge out of a row at the maximum when the
\* sink's row and the sink have spare capacity and the sink's row is lower.
Phase3Reversible(pair, hubs, dirs, row_amps, node_outputs, maxAmps, maxOut) ==
    LET data_start == dirs[pair[1]][1]
        data_end == dirs[pair[1]][2]
    IN /\ data_start \in Range(hubs)
       /\ data_end \in Range(hubs)
       /\ RowGet(row_amps, data_end[2]) < maxAmps
       /\ node_outputs[data_end] < maxOut
       /\ RowGet(row_amps, data_end[2]) < pair[2][2]

Phase3Move(v, es, hubs, dirs, maxAmps, maxOut) ==
    IF v.row_amps = <<>> THEN NoMove
    ELSE LET row_amps == v.row_amps
             Eligible(high) == ~(high[2] < MaxRow(row_amps))
             pairs == RowEdgePairs(SelectSeq(SortedByLoad(row_amps), Eligible),
                                   es, dirs)
             k == FirstIndex(pairs, LAMBDA pair :
                      Phase3Reversible(pair, hubs, dirs, row_amps,
                                       v.node_outputs, maxAmps, maxOut))
         IN IF k = 0 THEN NoMove
            ELSE LET old == dirs[pairs[k][1]]
                 IN IF old[2][2] \notin RowKeySet(row_amps)
                    THEN Raise("KeyError")
                    ELSE MoveTo(pairs[k][1], <<old[2], old[1]>>)

\* ------------------------------------------------------------------ states
Unbound == [bound |-> FALSE, value |-> <<>>]

NoResult == [returned |-> FALSE]

NoError == [type |-> "none", at |-> "none"]

\* The locals of the two balancers and of optimize_artnet before they run.
PlannerLocalsInit ==
    /\ artnet_outputs = <<>>
    /\ violations = <<>>
    /\ edge_dirs = <<>>
    /\ phase = 1
    /\ iteration = 0
    /\ improvements = 0
    /\ best_max_row = Infinity
    /\ iterations_without_max_improvement = 0
    /\ edges_in_row = Unbound
    /\ row_y = Unbound
    /\ result = NoResult
    /\ shown_artnet_nodes = {}
    /\ coverage_stats = <<>>

InitRun ==
    /\ pc = "cover"
    /\ error = NoError
    /\ uncovered_edges = Range(edges)
    /\ artnet_nodes = <<>>
    /\ edge_directions = <<>>
    /\ PlannerLocalsInit

\* A strategy that is not running has no locals.
NotRunning == [running |-> FALSE]

\* optimize_power_distribution has not been called.
RouterIdle ==
    /\ iterations = 0
    /\ annealing = NotRunning
    /\ colony = NotRunning
    /\ genetic = NotRunning
    /\ arguments = <<>>
    /\ previous = NoResult
    /\ optimize_hubs = FALSE
    /\ use_simulated_annealing = FALSE
    /\ use_ant_colony = FALSE
    /\ use_genetic = FALSE
    /\ use_ortools = FALSE
    /\ ORTOOLS_AVAILABLE = FALSE
    /\ use_2opt_improvement = FALSE
    /\ set_order = <<>>
    /\ power_requirements = <<>>
    /\ power_hubs = <<>>
    /\ all_circuits = <<>>
    /\ improved_circuits = <<>>
    /\ optimization = NoResult

\* optimize_led_network on every small network, well-formed or not.  The
\* port and current limits are parameters of the balancers (the pipeline
\* passes 4 and 20); they are drawn from small ranges so that networks of
\* a few edges reach the limits.
Init ==
    /\ edges \in SeqsUpTo(EdgeUniverse, MaxEdges)
    /\ nodes \in SUBSET NodeUniverse
    /\ num_artnet_nodes = NoTarget
    /\ max_outputs_per_node \in 1..MaxPortLimit
    /\ max_amps_per_row \in 1..MaxAmpLimit
    /\ max_iterations = IterationBudget
    /\ intercom_edges = {}
    /\ InitRun
    /\ RouterIdle

\* NetworkVisualizer.load_data followed by optimize_artnet: the node set is
\* the set of endpoints of the rows read, and any rows may be intercom.
InitVisualizer ==
    /\ edges \in SeqsUpTo(EdgeUniverse, MaxEdges)
    /\ nodes = Endpoints(edges)
    /\ intercom_edges \in SUBSET Range(edges)
    /\ num_artnet_nodes = NoTarget
    /\ max_outputs_per_node \in 1..MaxPortLimit
    /\ max_amps_per_row \in 1..MaxAmpLimit
    /\ max_iterations = IterationBudget
    /\ InitRun
    /\ RouterIdle

\* coverage_stats of optimize_artnet_distribution without the utilization
\* ratio, whose division is the one that fails on an empty hub list.
CoverageStats(ns, hubs) ==
    [total_nodes |-> Cardinality(ns),
     artnet_nodes |-> Len(hubs),
     end_nodes |-> Cardinality(ns \ Range(hubs)),
     coverage_percentage |-> (Cardinality(ns) \div Cardinality(ns)) * 100]

Fail(name, where) ==
    /\ pc' = "error"
    /\ error' = [type |-> name, at |-> where]

\* One round of the greedy cover: add a node covering the most uncovered
\* edges and drop the edges it covers.
CoverStep ==
    /\ pc = "cover"
    /\ uncovered_edges # {}
    /\ \E best_node \in BestNodes(nodes, artnet_nodes, uncovered_edges) :
          /\ artnet_nodes' = Append(artnet_nodes, best_node)
          /\ uncovered_edges' = {e \in uncovered_edges :
                                    e[1] # best_node /\ e[2] # best_node}
    /\ UNCHANGED <<pc, error, inputVars, routerVars, directionVars, loopVars, result,
                   shown_artnet_nodes, coverage_stats>>

\* The cover loop ends (nothing uncovered, or best_node is None); the rest
\* of optimize_artnet_distribution truncates to the target count and
\* computes the statistics.
CoverReturn ==
    /\ pc = "cover"
    /\ uncovered_edges = {} \/ BestNodes(nodes, artnet_nodes, uncovered_edges) = {}
    /\ LET kept == IF num_artnet_nodes # NoTarget /\ Len(artnet_nodes) > num_artnet_nodes
                   THEN _optimize_within_constraint(artnet_nodes, num_artnet_nodes, edges)
                   ELSE artnet_nodes
       IN /\ artnet_nodes' = kept
          /\ IF nodes = {}
             THEN /\ Fail("ValueError", "optimize_artnet_distribution")
                  /\ coverage_stats' = coverage_stats
             ELSE IF kept = <<>>
             THEN /\ Fail("ZeroDivisionError", "optimize_artnet_distribution")
                  /\ coverage_stats' = coverage_stats
             ELSE /\ pc' = "first_pass"
                  /\ error' = error
                  /\ coverage_stats' = CoverageStats(nodes, kept)
    /\ UNCHANGED <<inputVars, routerVars, uncovered_edges, directionVars, loopVars, result, shown_artnet_nodes>>

BalanceFirstPass ==
    /\ pc = "first_pass"
    /\ LET first == FirstPass(edges, artnet_nodes)
       IN /\ edge_directions' = first.dirs
          /\ artnet_outputs' = first.outs
    /\ pc' = "second_pass"
    /\ UNCHANGED <<error, inputVars, routerVars, coverVars, violations, loopVars, result, shown_artnet_nodes>>

\* Second pass and return of balance_edge_directions, then the entry of
\* balance_row_power_and_ports (deep copy of the directions).
BalanceSecondPass ==
    /\ pc = "second_pass"
    /\ LET second == SecondPass(edges, artnet_nodes, edge_directions,
                                artnet_outputs, max_outputs_per_node)
       IN /\ edge_directions' = second.dirs
          /\ artnet_outputs' = second.outs
          /\ violations' = Overloaded(artnet_nodes, second.outs, max_outputs_per_node)
          /\ edge_dirs' = second.dirs
    /\ pc' = "balance"
    /\ UNCHANGED <<error, inputVars, routerVars, coverVars, phase, iteration, improvements,
                   best_max_row, iterations_without_max_improvement,
                   edges_in_row, row_y, result, shown_artnet_nodes>>

CurrentViolations ==
    get_violations(edges, artnet_nodes, edge_dirs, max_amps_per_row,
                   max_outputs_per_node)

\* Variant of PhaseTransition that stays in Phase 2 when the wait is over.
PhaseTransitionStaying ==
    /\ pc = "balance"
    /\ iteration < max_iterations
    /\ LET v == CurrentViolations
       IN /\ \/ /\ phase = 1
                /\ v.row_violations = <<>>
                /\ v.node_violations = <<>>
                /\ phase' = 2
             \/ /\ phase = 2
                /\ iterations_without_max_improvement >= Phase2Wait
                /\ phase' = 2
          /\ best_max_row' = IF v.row_amps # <<>> THEN MaxRow(v.row_amps) ELSE Infinity
    /\ iterations_without_max_improvement' = 0
    /\ UNCHANGED <<pc, error, inputVars, routerVars, coverVars, directionVars, edge_dirs,
                   iteration, improvements, edges_in_row, row_y, result,
                   shown_artnet_nodes>>

\* Phase transition at the head of an iteration (`continue`).
PhaseTransition ==
    /\ pc = "balance"
    /\ iteration < max_iterations
    /\ LET v == CurrentViolations
       IN /\ \/ /\ phase = 1
                /\ v.row_violations = <<>>
                /\ v.node_violations = <<>>
                /\ phase' = 2
             \/ /\ phase = 2
                /\ iterations_without_max_improvement >= Phase2Wait
                /\ phase' = 3
          /\ best_max_row' = IF v.row_amps # <<>> THEN MaxRow(v.row_amps) ELSE Infinity
    /\ iterations_without_max_improvement' = 0
    /\ UNCHANGED <<pc, error, inputVars, routerVars, coverVars, directionVars, edge_dirs,
                   iteration, improvements, edges_in_row, row_y, result,
                   shown_artnet_nodes>>

TransitionDue(v) ==
    \/ phase = 1 /\ v.row_violations = <<>> /\ v.node_violations = <<>>
    \/ phase = 2 /\ iterations_without_max_improvement >= Phase2Wait

\* One full iteration of the main loop below the phase transitions.
BalanceIteration ==
    /\ pc = "balance"
    /\ iteration < max_iterations
    /\ LET v == CurrentViolations
           tracked == phase \in {2, 3} /\ v.row_amps # <<>>
           improved == tracked /\ MaxRow(v.row_amps) < best_max_row
           waited == IF ~tracked THEN iterations_without_max_improvement
                     ELSE IF improved THEN 0
                     ELSE iterations_without_max_improvement + 1
           locals == IF phase = 1
                     THEN Phase1Locals(v.row_violations, edges, edge_dirs,
                                       row_y, edges_in_row)
                     ELSE [row_y |-> row_y, edges_in_row |-> edges_in_row]
           mv == IF phase = 2
                 THEN Phase2Move(v, edges, artnet_nodes, edge_dirs,
                                 max_amps_per_row, max_outputs_per_node)
                 ELSE IF phase = 3
                 THEN Phase3Move(v, edges, artnet_nodes, edge_dirs,
                                 max_amps_per_row, max_outputs_per_node)
                 ELSE Phase1Move(v, locals, edges, artnet_nodes, edge_dirs,
                                 max_amps_per_row, max_outputs_per_node)
       IN /\ ~TransitionDue(v)
          /\ best_max_row' = IF improved THEN MaxRow(v.row_amps) ELSE best_max_row
          /\ iterations_without_max_improvement' = waited
          /\ IF tracked /\ phase = 3 /\ waited >= Phase3Wait
             THEN \* "No more improvements possible": break
                  /\ pc' = "report"
                  /\ UNCHANGED <<error, edge_dirs, iteration, improvements,
                                 edges_in_row, row_y>>
             ELSE /\ row_y' = locals.row_y
                  /\ edges_in_row' = locals.edges_in_row
                  /\ CASE mv.kind = "error" ->
                            /\ Fail(mv.error, "balance_row_power_and_ports")
                            /\ UNCHANGED <<edge_dirs, iteration, improvements>>
                       [] mv.kind = "move" ->
                            /\ edge_dirs' = [edge_dirs EXCEPT ![mv.edge] = mv.dir]
                            /\ improvements' = improvements + 1
                            /\ iteration' = iteration + 1
                            /\ UNCHANGED <<pc, error>>
                       [] mv.kind = "none" ->
                            /\ IF phase \in {1, 2}
                               THEN pc' = "report" /\ iteration' = iteration
                               ELSE pc' = pc /\ iteration' = iteration + 1
                            /\ UNCHANGED <<error, edge_dirs, improvements>>
    /\ UNCHANGED <<inputVars, routerVars, coverVars, directionVars, phase, result,
                   shown_artnet_nodes>>

\* `while iteration < max_iterations` fails.
BudgetExhausted ==
    /\ pc = "balance"
    /\ iteration >= max_iterations
    /\ pc' = "report"
    /\ UNCHANGED <<error, inputVars, routerVars, coverVars, directionVars, loopVars, result, shown_artnet_nodes>>

\* Final report and return: the violations are recomputed from edge_dirs.
\* The report prints max(row_amps.values()) and max(node_outputs.values()).
BalanceReturn ==
    /\ pc = "report"
    /\ LET v == CurrentViolations
       IN IF v.row_amps = <<>> \/ artnet_nodes = <<>>
          THEN Fail("ValueError", "balance_row_power_and_ports") /\ result' = result
          ELSE /\ result' = [returned |-> TRUE,
                             edge_directions |-> edge_dirs,
                             row_power |-> v.row_amps,
                             node_outputs |-> v.node_outputs,
                             row_violations |-> v.row_violations,
                             node_violations |-> v.node_violations]
               /\ pc' = "done"
               /\ error' = error
    /\ UNCHANGED <<inputVars, routerVars, coverVars, directionVars, loopVars,
                   shown_artnet_nodes>>

\* NetworkVisualizer.optimize_artnet after optimize_led_network returned:
\* pure intercom nodes are taken out of the hub list and the other
\* endpoint of every intercom edge is put in.  The edge directions of the
\* result are kept as they are.
OptimizeArtnetFix ==
    /\ pc = "done"
    /\ shown_artnet_nodes' =
          (Range(artnet_nodes) \ PureIntercomNodes(edges, intercom_edges))
          \cup {n \in Endpoints(SetToSeq(intercom_edges)) :
                   n \notin PureIntercomNodes(edges, intercom_edges)}
    /\ pc' = "shown"
    /\ UNCHANGED <<error, inputVars, routerVars, coverVars, directionVars, loopVars, result>>

Next ==
    \/ CoverStep
    \/ CoverReturn
    \/ BalanceFirstPass
    \/ BalanceSecondPass
    \/ PhaseTransition
    \/ BalanceIteration
    \/ BudgetExhausted
    \/ BalanceReturn
    \/ OptimizeArtnetFix

Spec == Init /\ [][Next]_vars

\* optimize_led_network with a target count.
InitTarget ==
    /\ edges \in SeqsUpTo(EdgeUniverse, MaxEdges)
    /\ nodes \in SUBSET NodeUniverse
    /\ num_artnet_nodes \in 0..MaxTarget
    /\ max_outputs_per_node \in 1..MaxPortLimit
    /\ max_amps_per_row \in 1..MaxAmpLimit
    /\ max_iterations = IterationBudget
    /\ intercom_edges = {}
    /\ InitRun
    /\ RouterIdle

SpecTarget == InitTarget /\ [][Next]_vars

\* The sample network of the module: two rows of three nodes.
sample_nodes ==
    {<<0, 0, 0>>, <<1, 0, 0>>, <<2, 0, 0>>, <<0, 1, 0>>, <<1, 1, 0>>, <<2, 1, 0>>}

sample_edges ==
    <<<<<<0, 0, 0>>, <<1, 0, 0>>>>, <<<<1, 0, 0>>, <<2, 0, 0>>>>,
      <<<<0, 0, 0>>, <<0, 1, 0>>>>, <<<<1, 0, 0>>, <<1, 1, 0>>>>,
      <<<<2, 0, 0>>, <<2, 1, 0>>>>,
      <<<<0, 1, 0>>, <<1, 1, 0>>>>, <<<<1, 1, 0>>, <<2, 1, 0>>>>>>

\* optimize_led_network(sample_nodes, sample_edges), as the module runs it.
InitSample ==
    /\ edges = sample_edges
    /\ nodes = sample_nodes
    /\ num_artnet_nodes = NoTarget
    /\ max_outputs_per_node = DefaultMaxOutputs
    /\ max_amps_per_row = DefaultMaxAmps
    /\ max_iterations = IterationBudget
    /\ intercom_edges = {}
    /\ InitRun
    /\ RouterIdle

SpecSample == InitSample /\ [][Next]_vars

\* The run has ended: no action of Next is enabled.
Ended == pc \in {"shown", "error"}

\* The run goes on while a statement is left to execute: weak fairness of
\* Next, with ENABLED <<Next>>_vars written as ~Ended.
Running == []<>Ended \/ []<><<Next>>_vars

SpecRunning == Init /\ [][Next]_vars /\ Running

SpecVisualizer == InitVisualizer /\ [][Next]_vars

\* ======================================================================
\* power_optimizer.py: supply points, circuits and their routes.
\* Coordinates are metres.  A length is an integer number of millimetres:
\* the code's floats are replaced by fixed-point values rounded down.
\* ======================================================================

\* ------------------------------------------------------------------ bounds
MaxRouted == 2
PositionsPerEdge == 2
MaxRouteLength == 4
MaxIterations == 1
MaxMove == 1
NumAnts == 2
PopulationSize == 1
Generations == 1
MaxRerouted == 1
MaxDirected == 2

\* ------------------------------------------------------- program constants
WattsPerEdge == 120
MaxPower == 1800
HubOffset == 2
TwoOptPassLimit == 100
MoveLimit == 10
TournamentSize == 5
EliteShare == 5
Millimetre == 1000
MaxSquaredDistance == 1200

\* ------------------------------------------------------------------ inputs
\* Hubs lie on a grid with even coordinates, so that the midpoints of the
\* bounding rectangle are whole metres.
PowerNodeUniverse == {<<0, 0, 0>>, <<2, 0, 0>>, <<0, 2, 0>>}

\* Numbers of rows a hub may feed: 120 W, 960 W and, above the limit of a
\* circuit, 1920 W.
PoweredEdgeCounts == {1, 8, 16}

\* The j-th pixel row fed by hub h ends at a node straight behind h.
Leaf(h, j) == <<h[1], h[2], j>>

RECURSIVE StarEdges(_, _)
StarEdges(hubs, counts) ==
    IF hubs = <<>> THEN <<>>
    ELSE [j \in 1..counts[Head(hubs)] |-> <<Head(hubs), Leaf(Head(hubs), j)>>]
         \o StarEdges(Tail(hubs), counts)

\* The orders in which a set can be listed.
OrdersOf(S) ==
    {p \in [1..Cardinality(S) -> S] : \A i, j \in DOMAIN p : i # j => p[i] # p[j]}

DistinctSeqsUpTo(S, n) ==
    {s \in SeqsUpTo(S, n) : \A i, j \in DOMAIN s : i # j => s[i] # s[j]}

\* ------------------------------------------------------------ requirements
\* dict.get(edge, (None, None))
\* Variant of DirectionOf that hands out the pair sink first.
DirectionFromSink(dirs, edge) ==
    IF edge \in DOMAIN dirs THEN <<dirs[edge][2], dirs[edge][1]>> ELSE NoDirection

\* edge_directions.get(edge, (None, None))
DirectionOf(dirs, edge) ==
    IF edge \in DOMAIN dirs THEN dirs[edge] ELSE NoDirection

calculate_node_power_requirements(es, hubs, dirs) ==
    IF dirs # <<>>
    THEN [h \in Range(hubs) |->
            Cardinality({i \in DOMAIN es : DirectionOf(dirs, es[i])[1] = h})
            * WattsPerEdge]
    ELSE [h \in Range(hubs) |->
            Cardinality({i \in DOMAIN es :
                \/ es[i][1] = h
                \/ es[i][2] = h /\ es[i][1] \notin Range(hubs)})
            * WattsPerEdge]

\* ---------------------------------------------------------------- geometry
Square(a) == a * a

RECURSIVE SqrtBetween(_, _, _)
SqrtBetween(v, lo, hi) ==
    IF lo = hi THEN lo
    ELSE LET mid == (lo + hi + 1) \div 2
         IN IF mid * mid <= v THEN SqrtBetween(v, mid, hi)
                              ELSE SqrtBetween(v, lo, mid - 1)

\* math.sqrt of a squared distance in square metres, in millimetres.
SqrtTable ==
    [d2 \in 0..MaxSquaredDistance |->
        SqrtBetween(d2 * Millimetre * Millimetre, 0, 35 * Millimetre)]

euclidean_distance(p1, p2) ==
    SqrtTable[Square(p1[1] - p2[1]) + Square(p1[2] - p2[2])
              + Square(p1[3] - p2[3])]

\* Variant of get_window_edge_centers without the offset: the four points
\* lie on the sides of the frame.
WindowEdgeCentersOnFrame(ns) ==
    LET min_x == MinOf({n[1] : n \in ns})
        max_x == MaxOf({n[1] : n \in ns})
        min_y == MinOf({n[2] : n \in ns})
        max_y == MaxOf({n[2] : n \in ns})
    IN << <<min_x, (min_y + max_y) \div 2, 0>>,
          <<max_x, (min_y + max_y) \div 2, 0>>,
          <<(min_x + max_x) \div 2, min_y, 0>>,
          <<(min_x + max_x) \div 2, max_y, 0>> >>

get_window_edge_centers(ns) ==
    LET min_x == MinOf({n[1] : n \in ns})
        max_x == MaxOf({n[1] : n \in ns})
        min_y == MinOf({n[2] : n \in ns})
        max_y == MaxOf({n[2] : n \in ns})
    IN << <<min_x - HubOffset, (min_y + max_y) \div 2, 0>>,
          <<max_x + HubOffset, (min_y + max_y) \div 2, 0>>,
          <<(min_x + max_x) \div 2, min_y - HubOffset, 0>>,
          <<(min_x + max_x) \div 2, max_y + HubOffset, 0>> >>

\* ------------------------------------------------------- nearest supply point
\* Index in hubs of the supply point nearest to node; the first of several
\* at the same distance (the loop keeps a hub only when strictly nearer,
\* and min() returns the first minimum).
ClosestHub(node, hubs) ==
    CHOOSE i \in DOMAIN hubs :
        \A j \in DOMAIN hubs :
            /\ euclidean_distance(node, hubs[i]) <= euclidean_distance(node, hubs[j])
            /\ j < i => euclidean_distance(node, hubs[j]) > euclidean_distance(node, hubs[i])

\* hub_assignments: for each supply point the hubs nearest to it, in the
\* order of artnet_nodes.
HubAssignments(hubs, routed) ==
    [h \in DOMAIN hubs |-> SelectSeq(routed, LAMBDA n : ClosestHub(n, hubs) = h)]

\* ------------------------------------------------------------- route length
\* Cable from the supply point to the first hub and on from hub to hub.
RECURSIVE RouteLength(_, _)
RouteLength(hub, route) ==
    IF route = <<>> THEN 0
    ELSE euclidean_distance(hub, Head(route)) + RouteLength(Head(route), Tail(route))

RoutePower(route, requirements) ==
    SumSeq([i \in DOMAIN route |-> requirements[route[i]]])

Circuit(hubs, h, route, power, length) ==
    [hub |-> hubs[h], hub_index |-> h - 1, route |-> route, power |-> power,
     length |-> length, nodes_count |-> Len(route)]

TotalLength(circuits) == SumSeq([i \in DOMAIN circuits |-> circuits[i].length])

\* --------------------------------------------------- nearest_neighbor_route
\* The hubs of remaining in the order in which the set is iterated.
Iterate(remaining, order) == SelectSeq(order, LAMBDA n : n \in remaining)

\* Twice the score of a candidate: distance + 0.5 * (distance to the
\* closest other remaining hub).
Score2(position, node, remaining) ==
    IF Cardinality(remaining) > 1
    THEN 2 * euclidean_distance(position, node)
         + MinOf({euclidean_distance(node, other) : other \in remaining \ {node}})
    ELSE 2 * euclidean_distance(position, node)

\* best_node of one round: the first hub in iteration order, among those
\* that fit the power left, with the lowest score; None if none fits.
BestNode(position, remaining, total_power, requirements, order) ==
    LET fitting == SelectSeq(Iterate(remaining, order),
                             LAMBDA n : total_power + requirements[n] <= MaxPower)
    IN IF fitting = <<>> THEN None
       ELSE fitting[CHOOSE i \in DOMAIN fitting :
                \A j \in DOMAIN fitting :
                    /\ Score2(position, fitting[i], remaining)
                         <= Score2(position, fitting[j], remaining)
                    /\ j < i => Score2(position, fitting[j], remaining)
                                  > Score2(position, fitting[i], remaining)]

RECURSIVE RouteFrom(_, _, _, _, _, _, _)
RouteFrom(route, total_power, total_length, position, remaining, requirements, order) ==
    LET best_node == BestNode(position, remaining, total_power, requirements, order)
    IN IF remaining = {} \/ best_node = None
       THEN [route |-> route, power |-> total_power, length |-> total_length]
       ELSE RouteFrom(Append(route, best_node),
                      total_power + requirements[best_node],
                      total_length + euclidean_distance(position, best_node),
                      best_node, remaining \ {best_node}, requirements, order)

nearest_neighbor_route(hub, available_nodes, requirements, order) ==
    RouteFrom(<<>>, 0, 0, hub, Range(available_nodes), requirements, order)

\* ----------------------------------------------- cluster_nodes_by_proximity
\* Half-turn of atan2(dy, dx): 0 for the angles below zero, 1 for the angle
\* zero, 2 for the angles above zero up to pi.
HalfTurn(dx, dy) ==
    IF dy < 0 THEN 0
    ELSE IF dy = 0 /\ dx >= 0 THEN 1
    ELSE 2

\* atan2(v) < atan2(w) for the vectors v, w from the supply point.
AngleBefore(v, w) ==
    \/ HalfTurn(v[1], v[2]) < HalfTurn(w[1], w[2])
    \/ /\ HalfTurn(v[1], v[2]) = HalfTurn(w[1], w[2])
       /\ v[1] * w[2] - v[2] * w[1] > 0

\* node_sort_key(a) < node_sort_key(b): by angle, then by distance.
KeyBefore(hub, a, b) ==
    LET v == <<a[1] - hub[1], a[2] - hub[2]>>
        w == <<b[1] - hub[1], b[2] - hub[2]>>
    IN \/ AngleBefore(v, w)
       \/ /\ ~AngleBefore(w, v)
          /\ euclidean_distance(hub, a) < euclidean_distance(hub, b)

\* sorted(nodes, key=node_sort_key): stable, equal keys keep their order.
RECURSIVE InsertByKey(_, _, _)
InsertByKey(hub, sorted, x) ==
    IF sorted = <<>> THEN <<x>>
    ELSE IF KeyBefore(hub, x, Head(sorted))
         THEN <<x>> \o sorted
         ELSE <<Head(sorted)>> \o InsertByKey(hub, Tail(sorted), x)

RECURSIVE SortByKey(_, _)
SortByKey(hub, s) ==
    IF s = <<>> THEN <<>>
    ELSE InsertByKey(hub, SortByKey(hub, SubSeq(s, 1, Len(s) - 1)), s[Len(s)])

\* Consecutive hubs of the sorted list are grouped while their power fits;
\* a hub that does not fit starts the next cluster, also when it exceeds
\* max_power by itself.
RECURSIVE ClustersFrom(_, _, _, _, _)
ClustersFrom(sorted_nodes, clusters, current_cluster, current_power, requirements) ==
    IF sorted_nodes = <<>>
    THEN IF current_cluster # <<>> THEN Append(clusters, current_cluster) ELSE clusters
    ELSE LET node == Head(sorted_nodes)
             node_power == requirements[node]
         IN IF current_power + node_power <= MaxPower
            THEN ClustersFrom(Tail(sorted_nodes), clusters,
                              Append(current_cluster, node),
                              current_power + node_power, requirements)
            ELSE ClustersFrom(Tail(sorted_nodes),
                              IF current_cluster # <<>>
                                  THEN Append(clusters, current_cluster)
                                  ELSE clusters,
                              <<node>>, node_power, requirements)

cluster_nodes_by_proximity(hub, ns, requirements) ==
    ClustersFrom(SortByKey(hub, ns), <<>>, <<>>, 0, requirements)

\* ------------------------------------------------------------------- greedy
\* Circuits of one supply point: one nearest-neighbour route per cluster; a
\* cluster whose route comes back empty yields no circuit.
RECURSIVE ClusterCircuits(_, _, _, _, _)
ClusterCircuits(hubs, h, clusters, requirements, order) ==
    IF clusters = <<>> THEN <<>>
    ELSE LET r == nearest_neighbor_route(hubs[h], Head(clusters), requirements, order)
             rest == ClusterCircuits(hubs, h, Tail(clusters), requirements, order)
         IN IF r.route = <<>> THEN rest
            ELSE <<Circuit(hubs, h, r.route, r.power, r.length)>> \o rest

RECURSIVE GreedyFrom(_, _, _, _, _)
GreedyFrom(hubs, h, routed, requirements, order) ==
    IF h > Len(hubs) THEN <<>>
    ELSE LET hub_nodes == HubAssignments(hubs, routed)[h]
             clusters == cluster_nodes_by_proximity(hubs[h], hub_nodes, requirements)
         IN ClusterCircuits(hubs, h, clusters, requirements, order)
            \o GreedyFrom(hubs, h + 1, routed, requirements, order)

GreedyCircuits(hubs, routed, requirements, order) ==
    GreedyFrom(hubs, 1, routed, requirements, order)

\* --------------------------------------------------- optimize_hub_positions
RECURSIVE Flatten(_)
Flatten(ss) == IF ss = <<>> THEN <<>> ELSE Head(ss) \o Flatten(Tail(ss))

\* Cable of one supply point in calculate_total_cable_length_for_hubs:
\* routes are cut from the hubs assigned to it until none is left or a route
\* comes back empty.
RECURSIVE HubCableLength(_, _, _, _)
HubCableLength(hub, unassigned, requirements, order) ==
    IF unassigned = <<>> THEN 0
    ELSE LET r == nearest_neighbor_route(hub, unassigned, requirements, order)
         IN IF r.route = <<>> THEN 0
            ELSE r.length + HubCableLength(hub,
                     SelectSeq(unassigned, LAMBDA n : n \notin Range(r.route)),
                     requirements, order)

calculate_total_cable_length_for_hubs(hubs, routed, requirements, order) ==
    LET hub_assignments == HubAssignments(hubs, routed)
    IN SumSeq([h \in DOMAIN hubs |->
                  HubCableLength(hubs[h], hub_assignments[h], requirements, order)])

\* The i-th of n candidate positions outside side e of the bounding
\* rectangle: 1 left, 2 right, 3 bottom, 4 top.
Candidate(ns, e, i, n) ==
    LET min_x == MinOf({p[1] : p \in ns})
        max_x == MaxOf({p[1] : p \in ns})
        min_y == MinOf({p[2] : p \in ns})
        max_y == MaxOf({p[2] : p \in ns})
    IN CASE e = 1 -> <<min_x - HubOffset, min_y + (i * (max_y - min_y)) \div (n - 1), 0>>
         [] e = 2 -> <<max_x + HubOffset, min_y + (i * (max_y - min_y)) \div (n - 1), 0>>
         [] e = 3 -> <<min_x + (i * (max_x - min_x)) \div (n - 1), min_y - HubOffset, 0>>
         [] e = 4 -> <<min_x + (i * (max_x - min_x)) \div (n - 1), max_y + HubOffset, 0>>

\* itertools.combinations(range(4), k) for k = 4, 3, 2, 1, sides numbered
\* from 1.
EdgeCombos ==
    << <<1, 2, 3, 4>>,
       <<1, 2, 3>>, <<1, 2, 4>>, <<1, 3, 4>>, <<2, 3, 4>>,
       <<1, 2>>, <<1, 3>>, <<1, 4>>, <<2, 3>>, <<2, 4>>, <<3, 4>>,
       <<1>>, <<2>>, <<3>>, <<4>> >>

\* itertools.product of k index ranges 0..n-1, last index fastest.
RECURSIVE PositionCombos(_, _)
PositionCombos(k, n) ==
    IF k = 0 THEN << <<>> >>
    ELSE LET rest == PositionCombos(k - 1, n)
         IN Flatten([i \in 1..n |-> [j \in DOMAIN rest |-> <<i - 1>> \o rest[j]]])

\* Every configuration tested, in the order of the search.
HubConfigurations(ns, n) ==
    Flatten([c \in DOMAIN EdgeCombos |->
        LET combos == PositionCombos(Len(EdgeCombos[c]), n)
        IN [j \in DOMAIN combos |->
               [k \in DOMAIN EdgeCombos[c] |->
                   Candidate(ns, EdgeCombos[c][k], combos[j][k], n)]]])

\* The scan over the configurations keeps one that is shorter than the best
\* so far, which starts at infinity: it ends with the first configuration
\* of the least total cable length.
BestConfig(configs, routed, requirements, order) ==
    LET total_length == [c \in DOMAIN configs |->
                            calculate_total_cable_length_for_hubs(
                                configs[c], routed, requirements, order)]
        shorter == {c \in DOMAIN configs :
                       total_length[c] < Infinity * Millimetre}
    IN IF shorter = {} THEN None
       ELSE configs[CHOOSE c \in shorter :
                        \A b \in shorter :
                            \/ total_length[c] < total_length[b]
                            \/ total_length[c] = total_length[b] /\ c <= b]

optimize_hub_positions(ns, routed, requirements, positions_per_edge, order) ==
    BestConfig(HubConfigurations(ns, positions_per_edge), routed, requirements,
               order)

\* ---------------------------------------------- solve_with_2opt_improvement
Reverse(s) == [i \in DOMAIN s |-> s[Len(s) + 1 - i]]

\* best_route[:i+1] + best_route[i+1:j+1][::-1] + best_route[j+1:], where i
\* is the length of the prefix kept and j the last position reversed.
ReverseSegment(route, i, j) ==
    SubSeq(route, 1, i) \o Reverse(SubSeq(route, i + 1, j))
                        \o SubSeq(route, j + 1, Len(route))

\* The swaps of one sweep over a route of n hubs, in loop order.
SwapPairs(n) ==
    Flatten([i \in 1..(n - 2) |-> [k \in 1..(n - i - 1) |-> <<i, i + 1 + k>>]])

\* One sweep over the swaps.  Lengths are whole millimetres: two routes of
\* the same length in millimetres differ in floating point by rounding at
\* most, and either may compare as the shorter.  A route once replaced is
\* not taken up again, since its computed length does not change; seen
\* holds the routes whose computed length has been the best length.
RECURSIVE SweepFrom(_, _, _, _, _, _)
SweepFrom(hub, pairs, best_route, best_length, improved, seen) ==
    IF pairs = <<>>
    THEN {[route |-> best_route, length |-> best_length,
           improved |-> improved, seen |-> seen]}
    ELSE LET new_route == ReverseSegment(best_route, Head(pairs)[1], Head(pairs)[2])
             new_length == RouteLength(hub, new_route)
             taken == SweepFrom(hub, Tail(pairs), new_route, new_length, TRUE,
                                seen \cup {new_route})
             kept == SweepFrom(hub, Tail(pairs), best_route, best_length,
                               improved, seen)
         IN IF new_length < best_length THEN taken
            ELSE IF new_length = best_length /\ new_route \notin seen
                 THEN taken \cup kept
                 ELSE kept

\* while improved and iteration < max_iterations
RECURSIVE TwoOptFrom(_, _, _, _, _)
TwoOptFrom(hub, best_route, best_length, passes, seen) ==
    IF passes >= TwoOptPassLimit
    THEN {[route |-> best_route, length |-> best_length]}
    ELSE UNION {IF s.improved
                THEN TwoOptFrom(hub, s.route, s.length, passes + 1, s.seen)
                ELSE {[route |-> s.route, length |-> s.length]} :
                s \in SweepFrom(hub, SwapPairs(Len(best_route)), best_route,
                                best_length, FALSE, seen)}

\* The circuits the pass may return for one circuit.
ImproveCircuit(circuit) ==
    IF Len(circuit.route) < 4 THEN {circuit}
    ELSE {[hub |-> circuit.hub, hub_index |-> circuit.hub_index,
           route |-> best.route, power |-> circuit.power,
           length |-> best.length, nodes_count |-> Len(best.route)] :
          best \in TwoOptFrom(circuit.hub, circuit.route, circuit.length, 0,
                     IF circuit.length = RouteLength(circuit.hub, circuit.route)
                     THEN {circuit.route} ELSE {})}

RECURSIVE solve_with_2opt_improvement(_)
solve_with_2opt_improvement(circuits) ==
    IF circuits = <<>> THEN {<<>>}
    ELSE {<<c>> \o rest : c \in ImproveCircuit(Head(circuits)),
                          rest \in solve_with_2opt_improvement(Tail(circuits))}

\* ------------------------------------------------ optimize_power_distribution
plannerVars == <<num_artnet_nodes, max_outputs_per_node, max_amps_per_row,
                 max_iterations, intercom_edges, uncovered_edges,
                 artnet_outputs, violations, loopVars, result,
                 shown_artnet_nodes, coverage_stats>>

networkVars == <<nodes, edges, artnet_nodes, edge_directions>>

\* The planner has returned; its locals are gone.
PlannerParked ==
    /\ num_artnet_nodes = NoTarget
    /\ max_outputs_per_node = DefaultMaxOutputs
    /\ max_amps_per_row = DefaultMaxAmps
    /\ max_iterations = IterationBudget
    /\ intercom_edges = {}
    /\ uncovered_edges = {}
    /\ PlannerLocalsInit

\* The network handed to the router: up to MaxRouted hubs of the grid, each
\* the source of 1, 8 or 16 rows, and a frame that is either the network's
\* own nodes or the whole grid.
RouterNetwork ==
    /\ artnet_nodes \in DistinctSeqsUpTo(PowerNodeUniverse, MaxRouted)
    /\ \E counts \in [Range(artnet_nodes) -> PoweredEdgeCounts] :
           edges = StarEdges(artnet_nodes, counts)
    /\ edge_directions = [e \in Range(edges) |-> e]
    /\ nodes \in {Endpoints(edges), Endpoints(edges) \cup PowerNodeUniverse}
    /\ set_order \in OrdersOf(Range(artnet_nodes))

\* No strategy is running and nothing has been returned.
CallStart ==
    /\ error = NoError
    /\ arguments = [use_simulated_annealing |-> use_simulated_annealing,
                    use_ant_colony |-> use_ant_colony,
                    use_genetic |-> use_genetic,
                    use_ortools |-> use_ortools]
    /\ previous = NoResult
    /\ annealing = NotRunning
    /\ colony = NotRunning
    /\ genetic = NotRunning
    /\ improved_circuits = <<>>
    /\ optimization = NoResult
    /\ PlannerParked

RouterStart ==
    /\ pc = "power_start"
    /\ CallStart
    /\ power_requirements = <<>>
    /\ power_hubs = <<>>
    /\ all_circuits = <<>>

\* use_ortools is left at its default; whether the solver could be
\* imported makes no difference then.
NoSolver ==
    /\ use_ortools = FALSE
    /\ ORTOOLS_AVAILABLE = FALSE

\* optimize_power_distribution with no strategy flag set.
GreedyCall ==
    /\ use_simulated_annealing = FALSE
    /\ use_ant_colony = FALSE
    /\ use_genetic = FALSE
    /\ NoSolver
    /\ optimize_hubs \in BOOLEAN
    /\ use_2opt_improvement \in BOOLEAN
    /\ iterations = 0

\* The branch of the strategy cascade taken under the flags.
NextStrategy(sa, aco, ga) ==
    IF sa THEN "anneal"
    ELSE IF aco THEN "ant_colony"
    ELSE IF ga THEN "genetic"
    ELSE IF use_ortools /\ ORTOOLS_AVAILABLE THEN "ortools"
    ELSE "greedy"

\* Power demand and supply points, up to the strategy cascade.
PlaceSupplyPoints ==
    /\ pc = "power_start"
    /\ power_requirements' =
           calculate_node_power_requirements(edges, artnet_nodes, edge_directions)
    /\ IF nodes = {}
       THEN /\ Fail("ValueError", "optimize_power_distribution")
            /\ UNCHANGED power_hubs
       ELSE /\ power_hubs' =
                   IF optimize_hubs /\ ~use_simulated_annealing
                   THEN optimize_hub_positions(nodes, artnet_nodes,
                            power_requirements', PositionsPerEdge, set_order)
                   ELSE get_window_edge_centers(nodes)
            /\ pc' = NextStrategy(use_simulated_annealing, use_ant_colony,
                                  use_genetic)
            /\ UNCHANGED error
    /\ UNCHANGED <<plannerVars, networkVars, optionVars, frameVars,
                   all_circuits, improved_circuits, optimization>>

\* The greedy branch: clusters by angle, each routed nearest-neighbour.
SolveGreedy ==
    /\ pc = "greedy"
    /\ all_circuits' = GreedyCircuits(power_hubs, artnet_nodes,
                                      power_requirements, set_order)
    /\ pc' = "two_opt"
    /\ UNCHANGED <<error, plannerVars, networkVars, optionVars, frameVars,
                   power_requirements, power_hubs, improved_circuits,
                   optimization>>

TwoOptImprovement ==
    /\ pc = "two_opt"
    /\ use_2opt_improvement
    /\ all_circuits # <<>>
    /\ improved_circuits' \in solve_with_2opt_improvement(all_circuits)
    /\ pc' = "report"
    /\ UNCHANGED <<error, plannerVars, networkVars, optionVars, frameVars,
                   power_requirements, power_hubs, all_circuits, optimization>>

OptimizerName(sa, aco, ga) ==
    IF sa THEN "SIMULATED ANNEALING (with hub optimization)"
    ELSE IF aco THEN "ANT COLONY OPTIMIZATION"
    ELSE IF ga THEN "GENETIC ALGORITHM"
    ELSE IF use_ortools THEN "GOOGLE OR-TOOLS VRP SOLVER"
    ELSE "GREEDY ANGULAR CLUSTERING"

\* The improved circuits replace the strategy's only when they are shorter;
\* then the result is assembled.
ReturnOptimization ==
    /\ \/ pc = "report"
       \/ pc = "two_opt" /\ ~(use_2opt_improvement /\ all_circuits # <<>>)
    /\ LET circuits ==
               IF pc = "report" /\ TotalLength(all_circuits)
                                     - TotalLength(improved_circuits) > 0
               THEN improved_circuits ELSE all_circuits
       IN /\ all_circuits' = circuits
          /\ optimization' =
                 [returned |-> TRUE,
                  power_requirements |-> power_requirements,
                  power_hubs |-> power_hubs,
                  circuits |-> circuits,
                  total_circuits |-> Len(circuits),
                  total_cable_length |-> TotalLength(circuits),
                  max_power_per_circuit |-> MaxPower,
                  total_power |-> SumSeq([i \in DOMAIN artnet_nodes |->
                                     power_requirements[artnet_nodes[i]]]),
                  optimizer_type |->
                      <<OptimizerName(use_simulated_annealing, use_ant_colony,
                                      use_genetic)>>
                      \o (IF use_2opt_improvement THEN <<" + 2-Opt">> ELSE <<>>)]
    /\ pc' = "power_done"
    /\ UNCHANGED <<error, plannerVars, networkVars, optionVars, frameVars,
                   power_requirements, power_hubs, improved_circuits>>


\* ------------------------------------------- circuits handed to the 2-opt pass
RouteUniverse == {<<0, 0, 0>>, <<2, 0, 0>>, <<4, 0, 0>>,
                  <<0, 2, 0>>, <<2, 2, 0>>, <<4, 2, 0>>}

\* The length solve_single_hub_vrp records: the arc costs of the vehicle's
\* tour in whole centimetres, from the depot to the first hub, between
\* consecutive hubs and from the last hub back to the depot.
RoundTripLength(hub, route) ==
    LET cm(a, b) == euclidean_distance(a, b) \div (Millimetre \div 100)
    IN (Millimetre \div 100) *
       (cm(hub, route[1])
        + SumSeq([i \in 1..(Len(route) - 1) |-> cm(route[i], route[i + 1])])
        + cm(route[Len(route)], hub))

\* The lengths under which the strategies record a route: the open path of
\* the greedy, genetic, colony and annealing strategies, and the tour of the
\* vehicle-routing solver.
RecordedLengths(hub, route) ==
    {RouteLength(hub, route), RoundTripLength(hub, route)}

\* A strategy has returned one circuit: any route of up to MaxRouteLength
\* hubs of the grid, each the source of one row, from one of the four
\* supply points of the grid.
InitTwoOpt ==
    /\ artnet_nodes \in DistinctSeqsUpTo(RouteUniverse, MaxRouteLength)
    /\ artnet_nodes # <<>>
    /\ edges = StarEdges(artnet_nodes, [n \in Range(artnet_nodes) |-> 1])
    /\ edge_directions = [e \in Range(edges) |-> e]
    /\ nodes = RouteUniverse \cup Endpoints(edges)
    /\ set_order = artnet_nodes
    /\ optimize_hubs = FALSE
    /\ use_simulated_annealing = FALSE
    /\ use_ant_colony = FALSE
    /\ use_genetic = FALSE
    /\ NoSolver
    /\ use_2opt_improvement = TRUE
    /\ iterations = 0
    /\ CallStart
    /\ pc = "two_opt"
    /\ power_requirements =
           calculate_node_power_requirements(edges, artnet_nodes, edge_directions)
    /\ power_hubs = get_window_edge_centers(nodes)
    /\ \E h \in DOMAIN power_hubs :
           \E length \in RecordedLengths(power_hubs[h], artnet_nodes) :
               all_circuits = <<Circuit(power_hubs, h, artnet_nodes,
                                        RoutePower(artnet_nodes, power_requirements),
                                        length)>>

NextTwoOpt == TwoOptImprovement

SpecTwoOpt == InitTwoOpt /\ [][NextTwoOpt]_vars

\* ---------------------------------------------------- solve_vrp_with_ortools
\* The ways to cut a list into consecutive non-empty pieces.
RECURSIVE Splits(_)
Splits(s) ==
    IF s = <<>> THEN {<<>>}
    ELSE UNION {{<<SubSeq(s, 1, k)>> \o rest :
                 rest \in Splits(SubSeq(s, k + 1, Len(s)))} : k \in 1..Len(s)}

\* The vehicle routes a solution of the capacitated routing instance can
\* hold: every hub of the supply point on one route, at most num_vehicles
\* routes that are not empty, none above max_power.
VehicleRoutes(hub_nodes, requirements) ==
    LET total_power == RoutePower(hub_nodes, requirements)
        num_vehicles == MaxOf({1, (total_power + MaxPower - 1) \div MaxPower})
    IN {routes \in UNION {Splits(order) : order \in OrdersOf(Range(hub_nodes))} :
           /\ Len(routes) <= num_vehicles
           /\ \A v \in DOMAIN routes :
                  RoutePower(routes[v], requirements) <= MaxPower}

\* The solver has found no solution within its time limit: None.
NoSolution == [solved |-> FALSE, circuits |-> <<>>]

Solution(circuits) == [solved |-> TRUE, circuits |-> circuits]

\* What solve_single_hub_vrp can return for a supply point with hubs: the
\* circuits of a solution the solver found, or None.  Which solution the
\* solver finds, and whether it finds one in time, is its own affair.
solve_single_hub_vrp(hubs, h, hub_nodes, requirements) ==
    {NoSolution} \cup
    {Solution([v \in DOMAIN routes |->
                  Circuit(hubs, h, routes[v],
                          RoutePower(routes[v], requirements),
                          RoundTripLength(hubs[h], routes[v]))]) :
     routes \in VehicleRoutes(hub_nodes, requirements)}

\* Variant of OrtoolsFrom that leaves out the supply points the solver
\* failed on and keeps the circuits of the others.
RECURSIVE OrtoolsKeepingSolved(_, _, _, _)
OrtoolsKeepingSolved(hubs, h, routed, requirements) ==
    IF h > Len(hubs) THEN {Solution(<<>>)}
    ELSE LET hub_nodes == HubAssignments(hubs, routed)[h]
             later == OrtoolsKeepingSolved(hubs, h + 1, routed, requirements)
         IN IF hub_nodes = <<>> THEN later
            ELSE {Solution(hub_circuits.circuits \o rest.circuits) :
                  hub_circuits \in solve_single_hub_vrp(hubs, h, hub_nodes,
                                                        requirements),
                  rest \in later}

\* The loop over the supply points from the h-th on: a supply point without
\* hubs is skipped, None from one supply point makes the whole result None.
RECURSIVE OrtoolsFrom(_, _, _, _)
OrtoolsFrom(hubs, h, routed, requirements) ==
    IF h > Len(hubs) THEN {Solution(<<>>)}
    ELSE LET hub_nodes == HubAssignments(hubs, routed)[h]
             later == OrtoolsFrom(hubs, h + 1, routed, requirements)
         IN IF hub_nodes = <<>> THEN later
            ELSE {IF hub_circuits.solved /\ rest.solved
                  THEN Solution(hub_circuits.circuits \o rest.circuits)
                  ELSE NoSolution :
                  hub_circuits \in solve_single_hub_vrp(hubs, h, hub_nodes,
                                                        requirements),
                  rest \in later}

solve_vrp_with_ortools(hubs, routed, requirements) ==
    IF ~ORTOOLS_AVAILABLE THEN {NoSolution}
    ELSE OrtoolsFrom(hubs, 1, routed, requirements)

\* The solver branch: a list that is not empty is kept; on None or an empty
\* list the flag is cleared, which lets the greedy branch run.
SolveOrtools ==
    /\ pc = "ortools"
    /\ \E solved \in solve_vrp_with_ortools(power_hubs, artnet_nodes,
                                            power_requirements) :
           /\ all_circuits' = solved.circuits
           /\ IF solved.circuits # <<>>
              THEN pc' = "two_opt" /\ UNCHANGED use_ortools
              ELSE pc' = "greedy" /\ use_ortools' = FALSE
    /\ UNCHANGED <<error, plannerVars, networkVars, callVars, frameVars,
                   use_simulated_annealing, use_ant_colony, use_genetic,
                   power_requirements, power_hubs, improved_circuits,
                   optimization>>

\* ------------------------------------- circuits of an assignment of hub indices
\* The annealing and the genetic strategy number the hubs of node_list (from
\* 1 here) and keep, for each supply point, a list of hub indices.

\* split_into_circuits: the list cut where the next hub would take the
\* circuit over max_power; a hub above max_power by itself stays alone.
RECURSIVE SplitFrom(_, _, _, _, _, _)
SplitFrom(node_indices, circuits, current_circuit, current_power, node_list, requirements) ==
    IF node_indices = <<>>
    THEN IF current_circuit # <<>> THEN Append(circuits, current_circuit)
                                   ELSE circuits
    ELSE LET node_idx == Head(node_indices)
             node_power == requirements[node_list[node_idx]]
         IN IF current_power + node_power <= MaxPower
            THEN SplitFrom(Tail(node_indices), circuits,
                           Append(current_circuit, node_idx),
                           current_power + node_power, node_list, requirements)
            ELSE SplitFrom(Tail(node_indices),
                           IF current_circuit # <<>>
                           THEN Append(circuits, current_circuit) ELSE circuits,
                           <<node_idx>>, node_power, node_list, requirements)

split_into_circuits(node_indices, node_list, requirements) ==
    SplitFrom(node_indices, <<>>, <<>>, 0, node_list, requirements)

\* min(remaining, key = distance from position) over a set of small
\* integers, which iterates in ascending order: the least index among the
\* nearest.
NearestIndex(position, remaining, node_list) ==
    CHOOSE n \in remaining :
        \A m \in remaining :
            \/ euclidean_distance(position, node_list[n])
                   < euclidean_distance(position, node_list[m])
            \/ /\ euclidean_distance(position, node_list[n])
                      = euclidean_distance(position, node_list[m])
               /\ n <= m

RECURSIVE OrderFrom(_, _, _, _)
OrderFrom(ordered, position, remaining, node_list) ==
    IF remaining = {} THEN ordered
    ELSE LET nearest == NearestIndex(position, remaining, node_list)
         IN OrderFrom(Append(ordered, nearest), node_list[nearest],
                      remaining \ {nearest}, node_list)

\* The circuits of one supply point: each group ordered nearest-neighbour
\* from the supply point.
GroupCircuits(hubs, h, groups, node_list, requirements) ==
    [g \in DOMAIN groups |->
        LET ordered == OrderFrom(<<>>, hubs[h], Range(groups[g]), node_list)
            route == [i \in DOMAIN ordered |-> node_list[ordered[i]]]
        IN Circuit(hubs, h, route, RoutePower(route, requirements),
                   RouteLength(hubs[h], route))]

SolutionCircuits(hubs, hub_assignments, node_list, requirements) ==
    Flatten([h \in DOMAIN hubs |->
                GroupCircuits(hubs, h,
                    split_into_circuits(hub_assignments[h], node_list, requirements),
                    node_list, requirements)])

\* Variant of MoveNode that takes the hub off its list and appends it to
\* none.
RemoveNode(assignments, node_idx, new_hub) ==
    [h \in DOMAIN assignments |->
        SelectSeq(assignments[h], LAMBDA i : i # node_idx)]

\* list.remove(node_idx) on the list that holds it, then append to new_hub's.
MoveNode(assignments, node_idx, new_hub) ==
    LET removed == [h \in DOMAIN assignments |->
                       SelectSeq(assignments[h], LAMBDA i : i # node_idx)]
    IN [removed EXCEPT ![new_hub] = Append(@, node_idx)]

\* ------------------------------------------- solve_with_simulated_annealing
evaluate_solution(hubs, hub_assignments, node_list, requirements) ==
    LET circuits == SolutionCircuits(hubs, hub_assignments, node_list, requirements)
    IN [cost |-> TotalLength(circuits), circuits |-> circuits]

create_initial_assignment(hubs, node_list) ==
    [h \in DOMAIN hubs |->
        SelectSeq([i \in DOMAIN node_list |-> i],
                  LAMBDA i : ClosestHub(node_list[i], hubs) = h)]

Abs(v) == IF v < 0 THEN -v ELSE v

\* max(lo - 10, min(hi + 10, v))
Clamp(v, lo, hi) ==
    LET capped == IF hi + MoveLimit < v THEN hi + MoveLimit ELSE v
    IN IF lo - MoveLimit > capped THEN lo - MoveLimit ELSE capped

\* A coordinate within the frame is pushed hub_offset beyond its nearer side.
PushOutside(v, lo, hi) ==
    IF lo <= v /\ v <= hi
    THEN IF Abs(v - lo) < Abs(v - hi) THEN lo - HubOffset ELSE hi + HubOffset
    ELSE v

\* The supply point moved by (dx, dy); the displacement, uniform in the
\* code, is drawn from the whole metres up to MaxMove.
MovedHub(hub, dx, dy, ns) ==
    LET min_x == MinOf({p[1] : p \in ns})
        max_x == MaxOf({p[1] : p \in ns})
        min_y == MinOf({p[2] : p \in ns})
        max_y == MaxOf({p[2] : p \in ns})
    IN <<PushOutside(Clamp(hub[1] + dx, min_x, max_x), min_x, max_x),
         PushOutside(Clamp(hub[2] + dy, min_y, max_y), min_y, max_y),
         0>>

HubMoves(hubs, ns, node_list) ==
    {LET new_hubs == [hubs EXCEPT ![h] = MovedHub(hubs[h], dx, dy, ns)]
     IN [hubs |-> new_hubs,
         assignments |-> create_initial_assignment(new_hubs, node_list)] :
     h \in DOMAIN hubs, dx \in -MaxMove..MaxMove, dy \in -MaxMove..MaxMove}

Reassignments(hubs, assignments, node_list) ==
    IF node_list = <<>> THEN {[hubs |-> hubs, assignments |-> assignments]}
    ELSE {[hubs |-> hubs, assignments |-> MoveNode(assignments, node_idx, new_hub)] :
          node_idx \in DOMAIN node_list, new_hub \in DOMAIN hubs}

\* assignments with idx1 of h1 and idx2 of h2 exchanged, each appended to
\* the other's list.
SwapNodes(assignments, h1, h2, idx1, idx2) ==
    [h \in DOMAIN assignments |->
        IF h = h1
        THEN Append(SelectSeq(assignments[h1], LAMBDA i : i # idx1), idx2)
        ELSE IF h = h2
        THEN Append(SelectSeq(assignments[h2], LAMBDA i : i # idx2), idx1)
        ELSE assignments[h]]

Swaps(hubs, assignments) ==
    LET hubs_with_nodes == {h \in DOMAIN hubs : assignments[h] # <<>>}
    IN IF Cardinality(hubs_with_nodes) >= 2
       THEN UNION {UNION {{[hubs |-> hubs,
                            assignments |->
                                SwapNodes(assignments, h1, h2, idx1, idx2)] :
                           idx1 \in Range(assignments[h1]),
                           idx2 \in Range(assignments[h2])} :
                          h2 \in hubs_with_nodes \ {h1}} :
                   h1 \in hubs_with_nodes}
       ELSE {[hubs |-> hubs, assignments |-> assignments]}

\* The neighbours perturb_solution can return: a supply point moved, a hub
\* reassigned, or two hubs swapped.
perturb_solution(hubs, assignments, ns, node_list) ==
    HubMoves(hubs, ns, node_list)
        \cup Reassignments(hubs, assignments, node_list)
        \cup Swaps(hubs, assignments)

\* Variant of InRange that runs the loop once more.
InRangeInclusive(i, n) == i <= n

\* for iteration in range(iterations)
InRange(i, n) == i < n

\* Lines up to the annealing loop: the initial assignment is the solution
\* and the best.
AnnealStart ==
    /\ pc = "anneal"
    /\ LET current_assignments ==
               create_initial_assignment(power_hubs, artnet_nodes)
           e == evaluate_solution(power_hubs, current_assignments,
                                  artnet_nodes, power_requirements)
       IN annealing' = [running |-> TRUE,
                        iteration |-> 0,
                        current_hubs |-> power_hubs,
                        current_assignments |-> current_assignments,
                        current_cost |-> e.cost,
                        current_circuits |-> e.circuits,
                        best_hubs |-> power_hubs,
                        best_assignments |-> current_assignments,
                        best_cost |-> e.cost,
                        best_circuits |-> e.circuits]
    /\ pc' = "anneal_loop"
    /\ UNCHANGED <<error, plannerVars, networkVars, optionVars, colony, genetic,
                   power_requirements, power_hubs, all_circuits,
                   improved_circuits, optimization>>

\* Variant of TrackBest that records every accepted neighbour as the best.
TrackEveryAccepted(accepted, new_cost, best_cost) == accepted

\* `if current_cost < best_cost` inside the branch of an accepted move.
TrackBest(accepted, new_cost, best_cost) == accepted /\ new_cost < best_cost

\* One pass of the annealing loop.  A neighbour that costs no more is
\* accepted (exp(0) = 1 exceeds every random.random()); one that costs more
\* is accepted or not, whatever the temperature, which is not kept.
AnnealIteration ==
    /\ pc = "anneal_loop"
    /\ InRange(annealing.iteration, iterations)
    /\ \E neighbour \in perturb_solution(annealing.current_hubs,
                                         annealing.current_assignments,
                                         nodes, artnet_nodes) :
       \E accepted \in BOOLEAN, tracked \in BOOLEAN :
           LET e == evaluate_solution(neighbour.hubs, neighbour.assignments,
                                      artnet_nodes, power_requirements)
           IN /\ e.cost - annealing.current_cost <= 0 => accepted
              /\ tracked <=> TrackBest(accepted, e.cost, annealing.best_cost)
              /\ annealing' =
                     [running |-> TRUE,
                      iteration |-> annealing.iteration + 1,
                      current_hubs |->
                          IF accepted THEN neighbour.hubs
                                      ELSE annealing.current_hubs,
                      current_assignments |->
                          IF accepted THEN neighbour.assignments
                                      ELSE annealing.current_assignments,
                      current_cost |->
                          IF accepted THEN e.cost ELSE annealing.current_cost,
                      current_circuits |->
                          IF accepted THEN e.circuits
                                      ELSE annealing.current_circuits,
                      best_hubs |->
                          IF tracked THEN neighbour.hubs ELSE annealing.best_hubs,
                      best_assignments |->
                          IF tracked THEN neighbour.assignments
                                     ELSE annealing.best_assignments,
                      best_cost |->
                          IF tracked THEN e.cost ELSE annealing.best_cost,
                      best_circuits |->
                          IF tracked THEN e.circuits ELSE annealing.best_circuits]
    /\ UNCHANGED <<pc, error, plannerVars, networkVars, optionVars, colony,
                   genetic, power_requirements, power_hubs, all_circuits,
                   improved_circuits, optimization>>

\* The annealing returns best_hubs and best_circuits; the caller takes them,
\* or clears the flag and falls back when there is no circuit.
AnnealReturn ==
    /\ pc = "anneal_loop"
    /\ ~InRange(annealing.iteration, iterations)
    /\ IF annealing.best_circuits # <<>>
       THEN /\ power_hubs' = annealing.best_hubs
            /\ all_circuits' = annealing.best_circuits
            /\ pc' = "two_opt"
            /\ UNCHANGED flagVars
       ELSE /\ use_simulated_annealing' = FALSE
            /\ pc' = NextStrategy(FALSE, use_ant_colony, use_genetic)
            /\ UNCHANGED <<power_hubs, all_circuits, use_ant_colony, use_genetic,
                           use_ortools>>
    /\ annealing' = NotRunning
    /\ UNCHANGED <<error, plannerVars, networkVars, callVars, colony, genetic,
                   power_requirements, improved_circuits, optimization>>

\* ----------------------------------------------------- solve_with_ant_colony
\* The circuit lists one ant can build at one supply point.  A new circuit
\* starts with any hub left, whatever its demand; a hub that fits is added
\* while there is one; the circuit is closed when none fits.  The pheromone
\* only weighs the draws: every weight stays positive, so every hub offered
\* can be drawn, and the trails are not kept.
\* Variant of feasible in which every hub left fits.
feasible_any(remaining, current_power, requirements) == remaining

\* The hubs left that fit in the current circuit.
feasible(remaining, current_power, requirements) ==
    {n \in remaining : current_power + requirements[n] <= MaxPower}

RECURSIVE AntRoutesFrom(_, _, _, _, _, _)
AntRoutesFrom(hubs, h, remaining, current_circuit, current_power, requirements) ==
    LET closed == Circuit(hubs, h, current_circuit, current_power,
                          RouteLength(hubs[h], current_circuit))
    IN IF remaining = {}
       THEN IF current_circuit # <<>> THEN {<<closed>>} ELSE {<<>>}
       ELSE IF current_circuit = <<>>
       THEN UNION {AntRoutesFrom(hubs, h, remaining \ {next_node}, <<next_node>>,
                                 requirements[next_node], requirements) :
                   next_node \in remaining}
       ELSE LET fitting == feasible(remaining, current_power, requirements)
            IN IF fitting # {}
               THEN UNION {AntRoutesFrom(hubs, h, remaining \ {next_node},
                               Append(current_circuit, next_node),
                               current_power + requirements[next_node],
                               requirements) :
                           next_node \in fitting}
               ELSE {<<closed>> \o rest :
                     rest \in AntRoutesFrom(hubs, h, remaining, <<>>, 0,
                                            requirements)}

\* The solutions of one ant: hubs go to their nearest supply point and the
\* supply points are served in order.
RECURSIVE AntCircuitsFrom(_, _, _, _)
AntCircuitsFrom(hubs, h, routed, requirements) ==
    IF h > Len(hubs) THEN {<<>>}
    ELSE LET hub_nodes == Range(HubAssignments(hubs, routed)[h])
         IN {here \o rest :
             here \in AntRoutesFrom(hubs, h, hub_nodes, <<>>, 0, requirements),
             rest \in AntCircuitsFrom(hubs, h + 1, routed, requirements)}

AntCircuits(hubs, routed, requirements) ==
    AntCircuitsFrom(hubs, 1, routed, requirements)

\* best_circuits = None, best_total_length = inf
ColonyStart ==
    /\ pc = "ant_colony"
    /\ colony' = [running |-> TRUE, iteration |-> 0, ant |-> 0,
                  best_circuits |-> None,
                  best_total_length |-> Infinity * Millimetre]
    /\ pc' = "colony_loop"
    /\ UNCHANGED <<error, plannerVars, networkVars, optionVars, annealing,
                   genetic, power_requirements, power_hubs, all_circuits,
                   improved_circuits, optimization>>

\* One ant of one iteration; after the last ant of an iteration the next
\* iteration begins.
ColonyAnt ==
    /\ pc = "colony_loop"
    /\ InRange(colony.iteration, iterations)
    /\ \E ant_circuits \in AntCircuits(power_hubs, artnet_nodes,
                                       power_requirements) :
           LET total_length == TotalLength(ant_circuits)
               better == total_length < colony.best_total_length
               last == ~InRange(colony.ant + 1, NumAnts)
           IN colony' = [running |-> TRUE,
                         iteration |-> IF last THEN colony.iteration + 1
                                               ELSE colony.iteration,
                         ant |-> IF last THEN 0 ELSE colony.ant + 1,
                         best_circuits |-> IF better THEN ant_circuits
                                                     ELSE colony.best_circuits,
                         best_total_length |-> IF better THEN total_length
                                               ELSE colony.best_total_length]
    /\ UNCHANGED <<pc, error, plannerVars, networkVars, optionVars, annealing,
                   genetic, power_requirements, power_hubs, all_circuits,
                   improved_circuits, optimization>>

\* return best_circuits if best_circuits else []; the caller keeps a list
\* that is not empty, or clears the flag and falls back.
ColonyReturn ==
    /\ pc = "colony_loop"
    /\ ~InRange(colony.iteration, iterations)
    /\ IF colony.best_circuits # <<>>
       THEN /\ all_circuits' = colony.best_circuits
            /\ pc' = "two_opt"
            /\ UNCHANGED flagVars
       ELSE /\ all_circuits' = <<>>
            /\ use_ant_colony' = FALSE
            /\ pc' = NextStrategy(FALSE, FALSE, use_genetic)
            /\ UNCHANGED <<use_simulated_annealing, use_genetic, use_ortools>>
    /\ colony' = NotRunning
    /\ UNCHANGED <<error, plannerVars, networkVars, callVars, annealing, genetic,
                   power_requirements, power_hubs, improved_circuits,
                   optimization>>

\* ------------------------------------------ solve_vrp_with_genetic_algorithm
\* The positions 1..n in ascending order.
Indices(n) == [i \in 1..n |-> i]

\* The chromosomes create_individual can return: the hubs shuffled, each
\* appended to the list of a supply point drawn for it.
Individuals(num_hubs, num_nodes) ==
    {[h \in 1..num_hubs |-> SelectSeq(nodes_copy, LAMBDA i : hub_of[i] = h)] :
     nodes_copy \in OrdersOf(1..num_nodes),
     hub_of \in [1..num_nodes -> 1..num_hubs]}

\* Negated cable of the circuits the chromosome splits into.
fitness(individual, hubs, node_list, requirements) ==
    0 - TotalLength(SolutionCircuits(hubs, individual, node_list, requirements))

\* The first supply point whose list holds the hub.
HubOf(individual, node_idx) ==
    CHOOSE h \in DOMAIN individual :
        /\ node_idx \in Range(individual[h])
        /\ \A g \in DOMAIN individual :
               node_idx \in Range(individual[g]) => h <= g

\* Each hub, in ascending order, goes to the supply point it has in one of
\* the parents.
crossover(parent1, parent2, num_nodes) ==
    {[h \in DOMAIN parent1 |->
         SelectSeq(Indices(num_nodes), LAMBDA i : chosen_hub[i] = h)] :
     chosen_hub \in {c \in [1..num_nodes -> DOMAIN parent1] :
                        \A i \in 1..num_nodes :
                            c[i] \in {HubOf(parent1, i), HubOf(parent2, i)}}}

\* Each hub in turn stays, or is removed and appended to the list of a
\* supply point drawn with a positive weight.
RECURSIVE MutateFrom(_, _, _)
MutateFrom(mutated, node_idx, num_nodes) ==
    IF node_idx > num_nodes THEN {mutated}
    ELSE UNION {MutateFrom(m, node_idx + 1, num_nodes) :
                m \in {mutated} \cup {MoveNode(mutated, node_idx, new_hub) :
                                      new_hub \in DOMAIN mutated}}

mutate(individual, num_nodes) == MutateFrom(individual, 1, num_nodes)

\* fitnesses.sort(reverse=True): positions of the population by fitness,
\* best first, equal ones in the order they had.
RECURSIVE RankFrom(_, _, _)
RankFrom(ranked, left, fitnesses) ==
    IF left = {} THEN ranked
    ELSE LET top == CHOOSE i \in left :
                        \A j \in left : \/ fitnesses[i] > fitnesses[j]
                                        \/ fitnesses[i] = fitnesses[j] /\ i <= j
         IN RankFrom(Append(ranked, top), left \ {top}, fitnesses)

Ranking(fitnesses) == RankFrom(<<>>, DOMAIN fitnesses, fitnesses)

\* max over random.sample(fitnesses, min(5, len(fitnesses))): a position
\* wins a tournament when enough others are no fitter to fill the sample.
TournamentWinners(fitnesses) ==
    LET size == IF TournamentSize < Len(fitnesses) THEN TournamentSize
                                                  ELSE Len(fitnesses)
    IN {i \in DOMAIN fitnesses :
           Cardinality({j \in DOMAIN fitnesses \ {i} :
                           fitnesses[j] <= fitnesses[i]}) >= size - 1}

\* The children one pass of the while loop can append.
Children(population, fitnesses, num_nodes) ==
    UNION {UNION {mutate(child, num_nodes) :
                  child \in crossover(population[p1], population[p2], num_nodes)} :
           p1 \in TournamentWinners(fitnesses),
           p2 \in TournamentWinners(fitnesses)}

\* population = [create_individual() ...], best_solution = None,
\* best_fitness = -inf
GeneticStart ==
    /\ pc = "genetic"
    /\ \E population \in [1..PopulationSize ->
                             Individuals(Len(power_hubs), Len(artnet_nodes))] :
           genetic' = [running |-> TRUE, gen |-> 0, population |-> population,
                       best_solution |-> None,
                       best_fitness |-> 0 - Infinity * Millimetre]
    /\ pc' = "genetic_loop"
    /\ UNCHANGED <<error, plannerVars, networkVars, optionVars, annealing,
                   colony, power_requirements, power_hubs, all_circuits,
                   improved_circuits, optimization>>

\* One generation: rank, track the best, keep the elite and breed the rest.
GeneticGeneration ==
    /\ pc = "genetic_loop"
    /\ InRange(genetic.gen, Generations)
    /\ LET population == genetic.population
           fitnesses == [i \in DOMAIN population |->
                            fitness(population[i], power_hubs, artnet_nodes,
                                    power_requirements)]
           ranked == Ranking(fitnesses)
           better == fitnesses[ranked[1]] > genetic.best_fitness
           elite_size == PopulationSize \div EliteShare
           elite == [i \in 1..elite_size |-> population[ranked[i]]]
       IN \E bred \in [1..(PopulationSize - elite_size) ->
                          Children(population, fitnesses, Len(artnet_nodes))] :
              genetic' = [running |-> TRUE,
                          gen |-> genetic.gen + 1,
                          population |-> elite \o bred,
                          best_solution |-> IF better THEN population[ranked[1]]
                                            ELSE genetic.best_solution,
                          best_fitness |-> IF better THEN fitnesses[ranked[1]]
                                           ELSE genetic.best_fitness]
    /\ UNCHANGED <<pc, error, plannerVars, networkVars, optionVars, annealing,
                   colony, power_requirements, power_hubs, all_circuits,
                   improved_circuits, optimization>>

\* The best chromosome is turned into circuits; the caller keeps a list that
\* is not empty, or clears the flag and falls back.
GeneticReturn ==
    /\ pc = "genetic_loop"
    /\ ~InRange(genetic.gen, Generations)
    /\ LET circuits == SolutionCircuits(power_hubs, genetic.best_solution,
                                        artnet_nodes, power_requirements)
       IN IF circuits # <<>>
          THEN /\ all_circuits' = circuits
               /\ pc' = "two_opt"
               /\ UNCHANGED flagVars
          ELSE /\ all_circuits' = <<>>
               /\ use_genetic' = FALSE
               /\ pc' = NextStrategy(FALSE, FALSE, FALSE)
               /\ UNCHANGED <<use_simulated_annealing, use_ant_colony,
                              use_ortools>>
    /\ genetic' = NotRunning
    /\ UNCHANGED <<error, plannerVars, networkVars, callVars, annealing, colony,
                   power_requirements, power_hubs, improved_circuits,
                   optimization>>

\* ------------------------------------------- calls of optimize_power_distribution
\* optimize_power_distribution with use_simulated_annealing alone.  The
\* pipeline hands the annealing positions_per_edge * 1000 iterations; here
\* it gets up to MaxIterations.  The annealing never iterates a set of hubs
\* and places the supply points itself, so set_order and optimize_hubs are
\* left at one value.
AnnealingCall ==
    /\ use_simulated_annealing = TRUE
    /\ use_ant_colony = FALSE
    /\ use_genetic = FALSE
    /\ NoSolver
    /\ optimize_hubs = TRUE
    /\ use_2opt_improvement = TRUE
    /\ set_order = artnet_nodes
    /\ iterations \in 0..MaxIterations

\* optimize_power_distribution with use_ant_colony alone; the colony gets
\* up to MaxIterations iterations where the pipeline hands it
\* positions_per_edge * 10.  The colony never iterates a set of hubs; the
\* greedy branch it falls back to does, and has hubs to route only after a
\* colony of no iteration.
ColonyCall ==
    /\ use_simulated_annealing = FALSE
    /\ use_ant_colony = TRUE
    /\ use_genetic = FALSE
    /\ NoSolver
    /\ optimize_hubs = FALSE
    /\ use_2opt_improvement = TRUE
    /\ iterations \in 0..MaxIterations
    /\ iterations > 0 => set_order = artnet_nodes

\* optimize_power_distribution with use_genetic alone, on a network that is
\* its own frame.
GeneticCall ==
    /\ use_simulated_annealing = FALSE
    /\ use_ant_colony = FALSE
    /\ use_genetic = TRUE
    /\ NoSolver
    /\ optimize_hubs = FALSE
    /\ use_2opt_improvement = TRUE
    /\ set_order = artnet_nodes
    /\ nodes = Endpoints(edges)
    /\ iterations = 0

\* optimize_power_distribution with use_ortools alone, the solver imported
\* or not.
OrtoolsCall ==
    /\ use_simulated_annealing = FALSE
    /\ use_ant_colony = FALSE
    /\ use_genetic = FALSE
    /\ use_ortools = TRUE
    /\ ORTOOLS_AVAILABLE \in BOOLEAN
    /\ optimize_hubs = FALSE
    /\ use_2opt_improvement \in BOOLEAN
    /\ iterations = 0

InitRouter ==
    /\ RouterNetwork
    /\ GreedyCall \/ AnnealingCall \/ ColonyCall \/ GeneticCall \/ OrtoolsCall
    /\ RouterStart

NextRouter ==
    \/ PlaceSupplyPoints
    \/ SolveGreedy
    \/ SolveOrtools
    \/ AnnealStart
    \/ AnnealIteration
    \/ AnnealReturn
    \/ ColonyStart
    \/ ColonyAnt
    \/ ColonyReturn
    \/ GeneticStart
    \/ GeneticGeneration
    \/ GeneticReturn
    \/ TwoOptImprovement
    \/ ReturnOptimization

SpecRouter == InitRouter /\ [][NextRouter]_vars

\* ---------------------------------------- calculate_node_power_requirements
\* Directions as the balancers leave them: an edge has none, or runs from a
\* hub of the list to one of the edge's endpoints.
BalancedDirections(es, hubs) ==
    [Range(es) -> {NoDirection} \cup
                  {<<h, n>> : h \in Range(hubs), n \in Endpoints(es)}]

\* calculate_node_power_requirements on a list of up to MaxDirected edges,
\* a list of hubs and directions for the edges.
InitDemand ==
    /\ edges \in SeqsUpTo(EdgeUniverse, MaxDirected)
    /\ artnet_nodes \in DistinctSeqsUpTo(NodeUniverse, MaxDirected)
    /\ edge_directions \in
           {dirs \in BalancedDirections(edges, artnet_nodes) :
               \A e \in Range(edges) :
                   dirs[e] = NoDirection \/ (dirs[e][2] \in {e[1], e[2]}
                                              /\ dirs[e][1] # dirs[e][2])}
    /\ nodes = Endpoints(edges) \cup Range(artnet_nodes)
    /\ pc = "demand"
    /\ error = NoError
    /\ PlannerParked
    /\ RouterIdle

CalculateRequirements ==
    /\ pc = "demand"
    /\ power_requirements' =
           calculate_node_power_requirements(edges, artnet_nodes, edge_directions)
    /\ pc' = "demand_done"
    /\ UNCHANGED <<error, plannerVars, networkVars, optionVars, frameVars,
                   power_hubs, all_circuits, improved_circuits, optimization>>

NextDemand == CalculateRequirements

SpecDemand == InitDemand /\ [][NextDemand]_vars

\* ------------------------------------------- a crowded row and a shared node
\* A network of six nodes in three rows: the top row feeds five of the
\* seven edges, and the node (1, 0, 0) is joined to three hubs.
crowded_edges ==
    <<<<<<0, 2, 0>>, <<1, 0, 0>>>>, <<<<1, 1, 0>>, <<1, 0, 0>>>>,
      <<<<0, 1, 0>>, <<1, 0, 0>>>>, <<<<1, 1, 0>>, <<1, 2, 0>>>>,
      <<<<1, 2, 0>>, <<1, 1, 0>>>>, <<<<0, 0, 0>>, <<0, 2, 0>>>>,
      <<<<0, 0, 0>>, <<1, 2, 0>>>>>>

crowded_hubs == {<<1, 1, 0>>, <<0, 2, 0>>, <<0, 1, 0>>, <<1, 2, 0>>}

\* balance_edge_directions(edges, hubs) with its default port limit.
DefaultDirections(es, hubs) ==
    LET first == FirstPass(es, hubs)
    IN SecondPass(es, hubs, first.dirs, first.outs, DefaultMaxOutputs)

\* balance_row_power_and_ports called on the crowded network with the
\* directions balance_edge_directions returns for it, the hubs in any
\* order and the limits drawn from small ranges.
InitCrowded ==
    /\ edges = crowded_edges
    /\ nodes = Endpoints(crowded_edges)
    /\ artnet_nodes \in OrdersOf(crowded_hubs)
    /\ num_artnet_nodes = NoTarget
    /\ max_outputs_per_node \in 1..MaxCrowdedPorts
    /\ max_amps_per_row \in 1..MaxCrowdedAmps
    /\ max_iterations = IterationBudget
    /\ intercom_edges = {}
    /\ uncovered_edges = {}
    /\ coverage_stats = CoverageStats(nodes, artnet_nodes)
    /\ LET balanced == DefaultDirections(edges, artnet_nodes)
       IN /\ edge_directions = balanced.dirs
          /\ artnet_outputs = balanced.outs
          /\ violations = Overloaded(artnet_nodes, balanced.outs, DefaultMaxOutputs)
          /\ edge_dirs = balanced.dirs
    /\ phase = 1
    /\ iteration = 0
    /\ improvements = 0
    /\ best_max_row = Infinity
    /\ iterations_without_max_improvement = 0
    /\ edges_in_row = Unbound
    /\ row_y = Unbound
    /\ result = NoResult
    /\ shown_artnet_nodes = {}
    /\ pc = "balance"
    /\ error = NoError
    /\ RouterIdle

NextCrowded ==
    \/ PhaseTransition
    \/ BalanceIteration
    \/ BudgetExhausted
    \/ BalanceReturn

SpecCrowded == InitCrowded /\ [][NextCrowded]_vars

\* ------------------------------------------------ two ways to one neighbour
\* A network of five nodes in which the hub (1, 0, 0) feeds four edges: one
\* runs to the hub (0, 1, 0) and one to the node (2, 1, 0), which that hub
\* feeds as well.
shared_edges ==
    <<<<<<1, 0, 0>>, <<0, 1, 0>>>>, <<<<1, 1, 0>>, <<1, 0, 0>>>>,
      <<<<0, 0, 0>>, <<1, 0, 0>>>>, <<<<2, 1, 0>>, <<0, 1, 0>>>>,
      <<<<1, 0, 0>>, <<2, 1, 0>>>>>>

\* balance_edge_directions called on that network with any one or two of
\* its nodes as the hubs, in either order, followed by
\* balance_row_power_and_ports with the same port limit.
InitShared ==
    /\ edges = shared_edges
    /\ nodes = Endpoints(shared_edges)
    /\ \E hubset \in SUBSET Endpoints(shared_edges) :
           /\ Cardinality(hubset) \in 1..2
           /\ artnet_nodes \in OrdersOf(hubset)
    /\ num_artnet_nodes = NoTarget
    /\ max_outputs_per_node \in 1..MaxCrowdedPorts
    /\ max_amps_per_row \in 1..MaxCrowdedAmps
    /\ max_iterations = IterationBudget
    /\ intercom_edges = {}
    /\ uncovered_edges = {e \in Range(edges) :
                              {e[1], e[2]} \cap Range(artnet_nodes) = {}}
    /\ coverage_stats = CoverageStats(nodes, artnet_nodes)
    /\ edge_directions = <<>>
    /\ artnet_outputs = <<>>
    /\ violations = <<>>
    /\ edge_dirs = <<>>
    /\ phase = 1
    /\ iteration = 0
    /\ improvements = 0
    /\ best_max_row = Infinity
    /\ iterations_without_max_improvement = 0
    /\ edges_in_row = Unbound
    /\ row_y = Unbound
    /\ result = NoResult
    /\ shown_artnet_nodes = {}
    /\ pc = "first_pass"
    /\ error = NoError
    /\ RouterIdle

NextShared ==
    \/ BalanceFirstPass
    \/ BalanceSecondPass
    \/ PhaseTransition
    \/ BalanceIteration
    \/ BudgetExhausted
    \/ BalanceReturn

SpecShared == InitShared /\ [][NextShared]_vars

\* ------------------------------------------------- two calls in one process
\* optimize_power_distribution called a second time with the arguments,
\* the network and the set order of the first call.  No function of the
\* module takes a seed and none seeds the random module, so the draws of
\* the second call are free as those of the first.
RunAgain ==
    /\ pc = "power_done"
    /\ ~previous.returned
    /\ previous' = optimization
    /\ use_simulated_annealing' = arguments.use_simulated_annealing
    /\ use_ant_colony' = arguments.use_ant_colony
    /\ use_genetic' = arguments.use_genetic
    /\ use_ortools' = arguments.use_ortools
    /\ power_requirements' = <<>>
    /\ power_hubs' = <<>>
    /\ all_circuits' = <<>>
    /\ improved_circuits' = <<>>
    /\ optimization' = NoResult
    /\ pc' = "power_start"
    /\ UNCHANGED <<error, plannerVars, networkVars, frameVars, optimize_hubs,
                   use_2opt_improvement, set_order, iterations, arguments,
                   ORTOOLS_AVAILABLE>>

InitTwoRuns ==
    /\ InitRouter
    /\ Len(artnet_nodes) <= MaxRerouted

NextTwoRuns ==
    \/ NextRouter
    \/ RunAgain

SpecTwoRuns == InitTwoRuns /\ [][NextTwoRuns]_vars

\* ================================================================== claims
RowUniverse == {n[2] : n \in NodeUniverse}

\* Outgoing directed edges of a hub / of a row in the returned directions,
\* one per edge of the edge list.
OutgoingCount(h) ==
    Cardinality({i \in DOMAIN edges : result.edge_directions[edges[i]][1] = h})

RowOutgoingCount(y) ==
    Cardinality({i \in DOMAIN edges :
        /\ result.edge_directions[edges[i]][1] # None
        /\ result.edge_directions[edges[i]][1][2] = y})

\* C1: when every edge joins two members of the node set and no target
\* count is given, every edge has an endpoint in the hub list once the
\* greedy cover has returned.
CoverageCompleteness ==
    (/\ pc # "cover"
     /\ num_artnet_nodes = NoTarget
     /\ Endpoints(edges) \subseteq nodes)
    => \A i \in DOMAIN edges :
          edges[i][1] \in Range(artnet_nodes) \/ edges[i][2] \in Range(artnet_nodes)

CoverageCompletenessWitness ==
    /\ pc = "first_pass"
    /\ Endpoints(edges) \subseteq nodes
    /\ Len(edges) >= 3
    /\ Len(artnet_nodes) = 2

\* C2: in the result of balance_row_power_and_ports, node_violations lists
\* exactly the hubs with more outgoing edges than max_outputs_per_node and
\* row_violations exactly the rows with more than max_amps_per_row; with
\* both lists empty every hub and row is within its limit.
ViolationListsExact ==
    result.returned =>
        /\ {result.node_violations[k][1] : k \in DOMAIN result.node_violations}
           = {h \in Range(artnet_nodes) : OutgoingCount(h) > max_outputs_per_node}
        /\ {result.row_violations[k][1] : k \in DOMAIN result.row_violations}
           = {y \in RowUniverse : RowOutgoingCount(y) > max_amps_per_row}
        /\ (result.node_violations = <<>> /\ result.row_violations = <<>>)
           => /\ \A h \in Range(artnet_nodes) : OutgoingCount(h) <= max_outputs_per_node
              /\ \A y \in RowUniverse : RowOutgoingCount(y) <= max_amps_per_row

ViolationListsExactWitness ==
    /\ result.returned
    /\ result.node_violations # <<>>
    /\ result.row_violations # <<>>
    /\ \E h \in Range(artnet_nodes) : OutgoingCount(h) = max_outputs_per_node

\* C3: a run whose port or current limits are still violated never ends in
\* an exception of balance_row_power_and_ports; it returns the violations.
UnsatisfiableNotFatal ==
    ~(/\ pc = "error"
      /\ Endpoints(edges) \subseteq nodes
      /\ error.at = "balance_row_power_and_ports"
      /\ \/ CurrentViolations.row_violations # <<>>
         \/ CurrentViolations.node_violations # <<>>)

\* The hubs whose own demand is above the circuit limit.
OversizedHubs ==
    {n \in Range(artnet_nodes) : power_requirements[n] > MaxPower}

\* C5: when no strategy flag is set and a hub's own demand is above the
\* circuit limit, the returned circuits hold one whose route is that hub
\* alone, with a power above the limit; the hub is not dropped.
OversizedHubOwnCircuit ==
    (/\ optimization.returned
     /\ ~arguments.use_simulated_annealing
     /\ ~arguments.use_ant_colony
     /\ ~arguments.use_genetic)
    => \A n \in OversizedHubs :
          \E k \in DOMAIN optimization.circuits :
              /\ optimization.circuits[k].route = <<n>>
              /\ optimization.circuits[k].power > MaxPower

\* C6: the route a circuit has after the 2-opt pass, measured from the
\* supply point to the first hub and on from hub to hub, is no longer than
\* the route it had before; a circuit of fewer than 4 hubs is unchanged.
TwoOptMonotone ==
    pc = "report" =>
        \A k \in DOMAIN all_circuits :
            /\ RouteLength(improved_circuits[k].hub, improved_circuits[k].route)
               <= RouteLength(all_circuits[k].hub, all_circuits[k].route)
            /\ Len(all_circuits[k].route) < 4
               => improved_circuits[k] = all_circuits[k]

\* C7: for an intercom edge that joins a pure intercom node to another
\* node, the pure intercom node is never picked as a hub by the cover, and
\* in the returned directions it is the sink of that edge, never its source.
TaggedSinks ==
    \A e \in intercom_edges :
        \A n \in {e[1], e[2]} \cap PureIntercomNodes(edges, intercom_edges) :
            ({e[1], e[2]} \ PureIntercomNodes(edges, intercom_edges) # {}) =>
                /\ n \notin Range(artnet_nodes)
                /\ result.returned =>
                      /\ result.edge_directions[e][1] # n
                      /\ result.edge_directions[e][2] = n

\* The hubs on the routes of a circuit list, one entry per visit.
RoutedHubs(circuits) ==
    Flatten([k \in DOMAIN circuits |-> circuits[k].route])

\* C9: when the annealing returns with iterations = 0, the supply points it
\* returns are the initial ones and its circuits are those evaluated from
\* the initial assignment: every hub is on exactly one circuit, and that
\* circuit hangs on a supply point no farther from the hub than any other.
AnnealingZeroIterations ==
    [][(pc = "anneal_loop" /\ pc' # "anneal_loop" /\ iterations = 0) =>
          /\ annealing.best_hubs = power_hubs
          /\ annealing.best_hubs = get_window_edge_centers(nodes)
          /\ annealing.best_circuits =
                 evaluate_solution(power_hubs,
                     create_initial_assignment(power_hubs, artnet_nodes),
                     artnet_nodes, power_requirements).circuits
          /\ \A n \in Range(artnet_nodes) :
                 Cardinality({i \in DOMAIN RoutedHubs(annealing.best_circuits) :
                                 RoutedHubs(annealing.best_circuits)[i] = n}) = 1
          /\ \A k \in DOMAIN annealing.best_circuits :
                 LET c == annealing.best_circuits[k]
                 IN /\ c.hub = power_hubs[c.hub_index + 1]
                    /\ \A n \in Range(c.route) : \A h \in DOMAIN power_hubs :
                           euclidean_distance(n, c.hub)
                               <= euclidean_distance(n, power_hubs[h])
          /\ pc' = "two_opt" => /\ power_hubs' = power_hubs
                                /\ all_circuits' = annealing.best_circuits
      ]_vars

AnnealingZeroIterationsWitness ==
    /\ pc = "two_opt"
    /\ use_simulated_annealing
    /\ iterations = 0
    /\ power_hubs = get_window_edge_centers(nodes)
    /\ Len(all_circuits) >= 2

\* C4: in the circuits returned under any strategy, the demand of the hubs
\* on a circuit sums to at most the circuit limit, unless the circuit is a
\* single hub whose own demand is above the limit; the power recorded for a
\* circuit is that sum.
CircuitPowerBound ==
    optimization.returned =>
        \A k \in DOMAIN optimization.circuits :
            LET c == optimization.circuits[k]
            IN /\ c.power = RoutePower(c.route, power_requirements)
               /\ \/ RoutePower(c.route, power_requirements) <= MaxPower
                  \/ /\ Len(c.route) = 1
                     /\ power_requirements[c.route[1]] > MaxPower

CircuitPowerBoundWitness ==
    /\ optimization.returned
    /\ arguments.use_ant_colony
    /\ optimization.optimizer_type[1] = "ANT COLONY OPTIMIZATION"
    /\ Len(optimization.circuits) = 2
    /\ \E k \in DOMAIN optimization.circuits :
           optimization.circuits[k].power > MaxPower
    /\ \E k \in DOMAIN optimization.circuits :
           optimization.circuits[k].power <= MaxPower

\* C4 as stated: in the circuits returned under any strategy, the demand of
\* the hubs on every circuit sums to at most the circuit limit.
CircuitPowerWithinLimit ==
    optimization.returned =>
        \A k \in DOMAIN optimization.circuits :
            RoutePower(optimization.circuits[k].route, power_requirements)
                <= MaxPower

\* C8: a second call with the arguments, network and set order of the
\* first returns what the first returned.
RunsAgree ==
    (pc = "power_done" /\ previous.returned) => optimization = previous

\* C10: with an empty node set, an empty edge list or an edge naming an
\* unknown node, the run ends in an error of optimize_artnet_distribution
\* and neither balancer starts.
InfeasibleInput ==
    nodes = {} \/ edges = <<>> \/ ~(Endpoints(edges) \subseteq nodes)

InfeasibleFailsFast ==
    InfeasibleInput =>
        \/ pc = "cover"
        \/ pc = "error" /\ error.at = "optimize_artnet_distribution"

\* The list entries of es with no endpoint among the hubs.
WithoutHub(es, hubs) ==
    {i \in DOMAIN es : es[i][1] \notin Range(hubs) /\ es[i][2] \notin Range(hubs)}

\* C11: whenever the greedy cover is longer than the target count,
\* optimize_artnet_distribution returns without an error, and when the
\* truncated hub list leaves an edge without a hub endpoint the coverage
\* percentage it returns is below 100.
CoverageIncompleteReported ==
    [][(/\ pc = "cover"
        /\ pc' # "cover"
        /\ num_artnet_nodes # NoTarget
        /\ Len(artnet_nodes) > num_artnet_nodes)
       => /\ pc' # "error"
          /\ WithoutHub(edges, artnet_nodes') # {}
                => coverage_stats'.coverage_percentage < 100]_vars

\* What the greedy branch and the 2-opt pass after it return for this call.
GreedyOutcomes ==
    LET greedy == GreedyCircuits(power_hubs, artnet_nodes, power_requirements,
                                 set_order)
    IN IF use_2opt_improvement /\ greedy # <<>>
       THEN {IF TotalLength(greedy) - TotalLength(improved) > 0
             THEN improved ELSE greedy :
             improved \in solve_with_2opt_improvement(greedy)}
       ELSE {greedy}

BalancerTerminates ==
    /\ [](pc = "balance" => iteration <= max_iterations /\ phase \in 1..3)
    /\ [][(pc = "balance" /\ pc' = "balance")
          => \/ iteration' = iteration + 1 /\ phase' = phase
             \/ iteration' = iteration /\ phase' = phase + 1]_vars
    /\ (pc = "balance" ~> pc # "balance")

\* Moves back and forth used up the whole budget.
BalancerTerminatesWitness ==
    /\ pc = "report"
    /\ iteration = max_iterations
    /\ improvements = max_iterations
    /\ phase = 3

\* The node sets that touch every edge.
Covers(hubs, es) ==
    \A i \in DOMAIN es : es[i][1] \in hubs \/ es[i][2] \in hubs

\* The nodes on three edges of the list.
DegreeThree == {n \in nodes : ListCoverage(n, edges) = 3}

\* C14: on the sample network of two rows of three nodes and seven edges,
\* run without a target count, the hub list returned leaves no edge
\* uncovered; it starts with a node of degree 3 and has 3 or 4 hubs.  No
\* cover of the network has fewer than 3 nodes; the two nodes of degree 3
\* leave two edges uncovered.
SampleCoverage ==
    /\ \A hubs \in SUBSET nodes : Covers(hubs, edges) => Cardinality(hubs) >= 3
    /\ Cardinality(WithoutHub(edges, SetToSeq(DegreeThree))) = 2
    /\ pc # "cover" =>
           /\ uncovered_edges = {}
           /\ Covers(Range(artnet_nodes), edges)
           /\ artnet_nodes[1] \in DegreeThree
           /\ Len(artnet_nodes) \in {3, 4}

SampleCoverageWitness ==
    /\ pc = "done"
    /\ nodes = sample_nodes
    /\ Len(edges) = 7
    /\ Len(artnet_nodes) = 4
    /\ DegreeThree \subseteq Range(artnet_nodes)
    /\ Covers(Range(artnet_nodes), edges)

\* C14 as stated: the hub set returned for the sample network leaves no
\* edge uncovered and consists of the two nodes of degree 3.
SampleCoveredByTwo ==
    pc # "cover" =>
        /\ uncovered_edges = {}
        /\ Range(artnet_nodes) = DegreeThree
        /\ Cardinality(DegreeThree) = 2

\* The list entries that touch the node and none of the hubs.
NewlyCovered(node, hubs, es) ==
    {i \in DOMAIN es : /\ es[i][1] = node \/ es[i][2] = node
                       /\ es[i][1] \notin Range(hubs)
                       /\ es[i][2] \notin Range(hubs)}

\* C15: every entry of the edge list is a unit of its own: a node added to
\* the cover is credited with each list entry it newly covers, and a move of
\* the balancer changes the direction of one list entry, so that no hub's
\* outgoing count changes by more than one.
ParallelEdgesIndependent ==
    [][/\ (pc = "cover" /\ artnet_nodes' # artnet_nodes) =>
              Cardinality(uncovered_edges) - Cardinality(uncovered_edges')
                  = Cardinality(NewlyCovered(artnet_nodes'[Len(artnet_nodes')],
                                             artnet_nodes, edges))
       /\ (pc = "balance" /\ edge_dirs' # edge_dirs) =>
              LET before == calculate_node_outputs(edges, artnet_nodes, edge_dirs)
                  after == calculate_node_outputs(edges, artnet_nodes, edge_dirs')
              IN /\ Cardinality({i \in DOMAIN edges :
                                    edge_dirs'[edges[i]] # edge_dirs[edges[i]]}) = 1
                 /\ \A h \in Range(artnet_nodes) :
                        after[h] - before[h] \in {-1, 0, 1}]_vars

\* Every direction of the mapping runs between the two endpoints of its edge.
Oriented(dirs) ==
    \A e \in DOMAIN dirs :
        dirs[e][1] # None => {dirs[e][1], dirs[e][2]} = {e[1], e[2]}

\* C16: in every state of the two balancers and in the mapping returned,
\* each edge that carries a direction has its own two endpoints as source
\* and sink, in one of the two orders.
DirectionsAreOrientations ==
    /\ Oriented(edge_directions)
    /\ Oriented(edge_dirs)
    /\ result.returned => Oriented(result.edge_directions)

\* The list entries whose direction starts at the node.
SourcedAt(h) == {i \in DOMAIN edges : edge_directions[edges[i]][1] = h}

\* C17: the demand computed for a hub is 120 W for every edge whose
\* direction starts at the hub; over the hubs the demands add up to 120 W
\* for every edge that carries a direction.
PowerDemand ==
    pc = "demand_done" =>
        /\ DOMAIN power_requirements = Range(artnet_nodes)
        /\ \A h \in Range(artnet_nodes) :
               power_requirements[h] = WattsPerEdge * Cardinality(SourcedAt(h))
        /\ RoutePower(artnet_nodes, power_requirements)
               = WattsPerEdge * Cardinality({i \in DOMAIN edges :
                     edge_directions[edges[i]][1] # None})

\* Two hubs, one feeding an edge of its own and an edge redirected to it,
\* the other feeding none.
PowerDemandWitness ==
    /\ pc = "demand_done"
    /\ Len(edges) = 2
    /\ edges[1] # edges[2]
    /\ Len(artnet_nodes) = 2
    /\ \E h \in Range(artnet_nodes) :
           /\ power_requirements[h] = 2 * WattsPerEdge
           /\ \E i \in DOMAIN edges : h \notin {edges[i][1], edges[i][2]}

\* The source the rule gives the i-th list entry: none without a hub
\* endpoint, the hub when one endpoint is a hub; between two hubs the one
\* that is the source of fewer earlier entries, the first endpoint on a tie.
RECURSIVE RuleSource(_)
RuleSource(i) ==
    LET start == edges[i][1]
        end == edges[i][2]
        hubs == Range(artnet_nodes)
        Earlier(h) == Cardinality({j \in 1..(i - 1) : RuleSource(j) = h})
    IN IF start \notin hubs /\ end \notin hubs THEN None
       ELSE IF start \notin hubs THEN end
       ELSE IF end \notin hubs THEN start
       ELSE IF Earlier(start) <= Earlier(end) THEN start ELSE end

\* C18: after the first pass every edge has the direction the rule gives
\* its last list entry: from the hub to the other endpoint, between two
\* hubs from the one with fewer outgoing edges at that moment and from the
\* first endpoint on a tie, and (None, None) without a hub endpoint; the
\* count of a hub is the number of list entries it is the source of.
InitialDirectionRule ==
    pc = "second_pass" =>
        /\ \A i \in DOMAIN edges :
               (\A j \in DOMAIN edges : edges[j] = edges[i] => j <= i) =>
                   LET source == RuleSource(i)
                       sink == IF source = edges[i][1] THEN edges[i][2]
                               ELSE edges[i][1]
                   IN edge_directions[edges[i]] =
                          IF source = None THEN NoDirection ELSE <<source, sink>>
        /\ \A h \in Range(artnet_nodes) :
               artnet_outputs[h] =
                   Cardinality({i \in DOMAIN edges : RuleSource(i) = h})

\* An edge between two hubs that starts at its second endpoint, the first
\* being the source of an earlier entry.
InitialDirectionRuleWitness ==
    /\ pc = "second_pass"
    /\ \E i \in DOMAIN edges :
           /\ {edges[i][1], edges[i][2]} \subseteq Range(artnet_nodes)
           /\ edge_directions[edges[i]] = <<edges[i][2], edges[i][1]>>
           /\ \E k \in 1..(i - 1) : edge_directions[edges[k]][1] = edges[i][1]

\* The edge a step of the main loop re-points.
MovedEdges == {e \in Range(edges) : edge_dirs'[e] # edge_dirs[e]}

\* The source of the edge is a hub over the port limit or lies in a row
\* over the current limit.
SourceOverLimit(e) ==
    LET source == edge_dirs[e][1]
    IN /\ source \in Range(artnet_nodes)
       /\ \/ calculate_node_outputs(edges, artnet_nodes, edge_dirs)[source]
                 > max_outputs_per_node
          \/ RowGet(calculate_row_power(edges, edge_dirs), source[2])
                 > max_amps_per_row

\* The new source is another hub joined to the sink by an edge, with a
\* port count and a row load below the limits before the move.
SpareAlternate(e) ==
    LET alt == edge_dirs'[e][1]
        sink == edge_dirs[e][2]
    IN /\ edge_dirs'[e][2] = sink
       /\ alt \in Range(artnet_nodes) \ {edge_dirs[e][1]}
       /\ \E i \in DOMAIN edges : edges[i] \in {<<alt, sink>>, <<sink, alt>>}
       /\ calculate_node_outputs(edges, artnet_nodes, edge_dirs)[alt]
              < max_outputs_per_node
       /\ RowGet(calculate_row_power(edges, edge_dirs), alt[2])
              < max_amps_per_row

\* C19: every Phase 1 move takes an edge whose current source is a hub over
\* the port limit or in a row over the current limit, and re-points its
\* source to an alternate hub next to the edge's sink whose port count and
\* row load are below the limits before the move.
Phase1MoveRule ==
    [][(pc = "balance" /\ phase = 1 /\ edge_dirs' # edge_dirs) =>
           \A e \in MovedEdges : SourceOverLimit(e) /\ SpareAlternate(e)]_vars

\* C20: from entering Phase 2 on, up to the returned result, no hub has
\* more outgoing edges than max_outputs_per_node and no row a load above
\* max_amps_per_row.
HardConstraintsStable ==
    (phase \in {2, 3} /\ pc \in {"balance", "report", "done", "shown"}) =>
        /\ \A h \in Range(artnet_nodes) :
               Cardinality({i \in DOMAIN edges : edge_dirs[edges[i]][1] = h})
                   <= max_outputs_per_node
        /\ \A y \in {n[2] : n \in Range(artnet_nodes)} :
               Cardinality({i \in DOMAIN edges :
                               /\ edge_dirs[edges[i]][1] # None
                               /\ edge_dirs[edges[i]][1][2] = y})
                   <= max_amps_per_row
        /\ result.returned =>
               result.row_violations = <<>> /\ result.node_violations = <<>>

\* C21: the balancer does not leave the main loop from Phase 2 while the
\* iteration budget lasts: a Phase 2 that finds no move, or whose maximum
\* row load has stopped decreasing, is followed by Phase 3 before the
\* result is reported.
Phase3FollowsStalledPhase2 ==
    [][(pc = "balance" /\ phase = 2 /\ iteration < max_iterations) =>
           pc' # "report"]_vars

\* The load of row y under the directions dirs, and the largest load.
RowLoad(dirs, y) ==
    Cardinality({i \in DOMAIN edges :
                    dirs[edges[i]][1] # None /\ dirs[edges[i]][1][2] = y})

PeakLoad(dirs) == MaxOf({0} \cup {RowLoad(dirs, n[2]) : n \in Endpoints(edges)})

\* C22: in Phase 2 and Phase 3 no iteration raises the maximum row load,
\* and the maximum row load of the returned result is at most the one
\* recorded when the phase began.
PeakLoadNeverGrows ==
    [][(pc = "balance" /\ phase \in {2, 3}) =>
           /\ PeakLoad(edge_dirs') <= PeakLoad(edge_dirs)
           /\ (pc' = "report" /\ best_max_row' # Infinity) =>
                  PeakLoad(edge_dirs') <= best_max_row']_vars

\* The list entries whose direction a step of the main loop changes.
Redirected == {i \in DOMAIN edges : edge_dirs'[edges[i]] # edge_dirs[edges[i]]}

\* C23: the balancer leaves the mapping it was given as it is; a pass of
\* the main loop changes the direction of at most one edge of the list, the
\* one its move takes, a redirection of Phase 1 or Phase 2 keeps the sink of
\* that edge, and an edge without a direction stays without one.
BalancerFrame ==
    [][pc = "balance" =>
           /\ edge_directions' = edge_directions
           /\ Cardinality(Redirected) <= 1
           /\ \A i \in Redirected :
                  /\ edge_dirs[edges[i]] # NoDirection
                  /\ phase \in {1, 2} => edge_dirs'[edges[i]][2] = edge_dirs[edges[i]][2]
           /\ DOMAIN edge_dirs' = DOMAIN edge_dirs]_vars

\* The number of list entries that have the node as an endpoint.
IncidentEdges(n) ==
    Cardinality({i \in DOMAIN edges : n \in {edges[i][1], edges[i][2]}})

\* C24: when a target count is given and the greedy cover is larger, the
\* hub list returned has exactly that many hubs, all of the cover, and no
\* dropped hub has more incident edges than a kept one; a cover that is
\* not larger than the target is returned as it is.
TargetCountTruncation ==
    [][(pc = "cover" /\ pc' = "first_pass") =>
           IF num_artnet_nodes # NoTarget /\ Len(artnet_nodes) > num_artnet_nodes
           THEN /\ Len(artnet_nodes') = num_artnet_nodes
                /\ Cardinality(Range(artnet_nodes')) = num_artnet_nodes
                /\ Range(artnet_nodes') \subseteq Range(artnet_nodes)
                /\ \A kept \in Range(artnet_nodes') :
                       \A dropped \in Range(artnet_nodes) \ Range(artnet_nodes') :
                           IncidentEdges(kept) >= IncidentEdges(dropped)
           ELSE artnet_nodes' = artnet_nodes]_vars

\* A cover of two hubs cut down to the one with more incident edges: the
\* other hub's edge is left without a hub.
TargetCountTruncationWitness ==
    /\ pc = "first_pass"
    /\ num_artnet_nodes = 1
    /\ Len(artnet_nodes) = 1
    /\ \E i \in DOMAIN edges :
           /\ {edges[i][1], edges[i][2]} \cap Range(artnet_nodes) = {}
           /\ \E n \in {edges[i][1], edges[i][2]} \cap nodes :
                  IncidentEdges(n) < IncidentEdges(artnet_nodes[1])

\* The point lies outside the rectangle [min_x, max_x] x [min_y, max_y]
\* spanned by the nodes.
OutsideFrame(p) ==
    \/ p[1] < MinOf({n[1] : n \in nodes})
    \/ p[1] > MaxOf({n[1] : n \in nodes})
    \/ p[2] < MinOf({n[2] : n \in nodes})
    \/ p[2] > MaxOf({n[2] : n \in nodes})

AllOutside(hubs) == \A h \in DOMAIN hubs : OutsideFrame(hubs[h])

\* C25: the four default supply points lie outside the bounding rectangle
\* of the nodes, and while the annealing runs the supply points of the
\* current and the best configuration, and of every candidate a
\* perturbation can produce, lie outside it.
SupplyPointsOutside ==
    arguments.use_simulated_annealing =>
        /\ pc \in {"anneal", "anneal_loop"} => AllOutside(power_hubs)
        /\ annealing.running =>
               /\ AllOutside(annealing.current_hubs)
               /\ AllOutside(annealing.best_hubs)
               /\ \A candidate \in perturb_solution(annealing.current_hubs,
                                      annealing.current_assignments, nodes,
                                      artnet_nodes) :
                      AllOutside(candidate.hubs)

\* A moved supply point was accepted: it stands beside a corner of the
\* frame, pushed out of the span it had entered.
SupplyPointsOutsideWitness ==
    /\ annealing.running
    /\ annealing.iteration = 1
    /\ \E h \in DOMAIN power_hubs :
           /\ annealing.current_hubs[h] # power_hubs[h]
           /\ annealing.current_hubs[h][1] \notin
                  MinOf({n[1] : n \in nodes})..MaxOf({n[1] : n \in nodes})
           /\ annealing.current_hubs[h][2] \notin
                  MinOf({n[2] : n \in nodes})..MaxOf({n[2] : n \in nodes})

\* C26: while the annealing runs, best_cost is at most current_cost and is
\* the total length of the best circuits, which are those of the best
\* supply points and assignment; a pass never raises best_cost, a pass
\* that raises current_cost leaves the best configuration as it was, and
\* the supply points and circuits handed back are the best ones.
AnnealingKeepsBest ==
    [][annealing.running =>
           /\ annealing.best_cost <= annealing.current_cost
           /\ annealing.best_cost = TotalLength(annealing.best_circuits)
           /\ annealing.best_circuits =
                  SolutionCircuits(annealing.best_hubs, annealing.best_assignments,
                                   artnet_nodes, power_requirements)
           /\ annealing'.running =>
                  /\ annealing'.best_cost <= annealing.best_cost
                  /\ annealing'.current_cost > annealing.current_cost =>
                         /\ annealing'.best_hubs = annealing.best_hubs
                         /\ annealing'.best_assignments = annealing.best_assignments
                         /\ annealing'.best_cost = annealing.best_cost
                         /\ annealing'.best_circuits = annealing.best_circuits
           /\ pc' = "two_opt" =>
                  /\ power_hubs' = annealing.best_hubs
                  /\ all_circuits' = annealing.best_circuits]_vars

\* The loop has ended after accepting a neighbour that costs more: the
\* current configuration is worse than the best, which is the initial one.
AnnealingKeepsBestWitness ==
    /\ annealing.running
    /\ annealing.iteration = iterations
    /\ annealing.current_cost > annealing.best_cost
    /\ annealing.best_hubs = power_hubs
    /\ annealing.current_circuits # annealing.best_circuits

\* The strategy whose branch of the cascade ran last: a flag still set
\* names the strategy that kept its circuits, the solver counts only when
\* it is installed, and the greedy clustering is what is left.
StrategyUsed ==
    IF use_simulated_annealing THEN "SIMULATED ANNEALING (with hub optimization)"
    ELSE IF use_ant_colony THEN "ANT COLONY OPTIMIZATION"
    ELSE IF use_genetic THEN "GENETIC ALGORITHM"
    ELSE IF use_ortools /\ ORTOOLS_AVAILABLE THEN "GOOGLE OR-TOOLS VRP SOLVER"
    ELSE "GREEDY ANGULAR CLUSTERING"

\* C27: when circuits are returned, the optimizer_type returned names the
\* strategy that produced them.
ReportedStrategyUsed ==
    (optimization.returned /\ optimization.circuits # <<>>) =>
        optimization.optimizer_type[1] = StrategyUsed


\* C28: the second pass of balance_edge_directions creates no new violation:
\* a hub that had at most max_outputs_per_node outgoing edges when the pass
\* began is not in the violations list the pass returns.
SecondPassCreatesNoViolation ==
    [][(pc = "second_pass" /\ pc' = "balance") =>
          \A k \in DOMAIN artnet_nodes :
              artnet_outputs[artnet_nodes[k]] <= max_outputs_per_node =>
                  /\ artnet_outputs'[artnet_nodes[k]] <= max_outputs_per_node
                  /\ \A v \in DOMAIN violations' :
                         violations'[v] # artnet_nodes[k]]_vars


\* The list entries that have a hub at one end or both.
HubEdgeCount ==
    Cardinality({i \in DOMAIN edges :
                     {edges[i][1], edges[i][2]} \cap Range(artnet_nodes) # {}})

SumOfNodeOutputs ==
    SumSeq([k \in DOMAIN artnet_nodes |-> result.node_outputs[artnet_nodes[k]]])

SumOfRowPower ==
    SumSeq([r \in DOMAIN result.row_power |-> result.row_power[r][2]])

\* C29: in the result of balance_row_power_and_ports the node_outputs of all
\* hubs and the row_power of all rows both add up to the number of input
\* edges that have a hub endpoint, and every edge that has a direction has a
\* hub as its source.
DirectedEdgeConservation ==
    (pc = "done" /\ result.returned) =>
        /\ SumOfNodeOutputs = HubEdgeCount
        /\ SumOfRowPower = HubEdgeCount
        /\ \A e \in DOMAIN result.edge_directions :
               result.edge_directions[e][1] # None =>
                   result.edge_directions[e][1] \in Range(artnet_nodes)


\* A returned result after at least one move, for an input with an edge
\* that has no hub at either end and a direction that differs from the one
\* balance_edge_directions gave.
DirectedEdgeConservationWitness ==
    /\ pc = "done"
    /\ result.returned
    /\ improvements > 0
    /\ HubEdgeCount > 1
    /\ HubEdgeCount < Len(edges)
    /\ \E e \in DOMAIN result.edge_directions :
           result.edge_directions[e] # edge_directions[e]


\* Every hub's demand is within the limit of one circuit.
DemandsWithinLimit ==
    \A k \in DOMAIN artnet_nodes :
        optimization.power_requirements[artnet_nodes[k]] <= MaxPower

\* The number of visits the routes of a circuit list pay to a hub.
Visits(circuits, h) ==
    Cardinality({i \in DOMAIN RoutedHubs(circuits) : RoutedHubs(circuits)[i] = h})

\* The second route visits the hubs of the first, each as often.
SameHubs(route, other) ==
    /\ Len(route) = Len(other)
    /\ \A h \in Range(route) \cup Range(other) :
           Cardinality({i \in DOMAIN route : route[i] = h})
               = Cardinality({i \in DOMAIN other : other[i] = h})

====
